---------------------------- MODULE Spec2Model ----------------------------
(***************************************************************************)
(* A model of the ElevenLabs command line client: the error classifier,    *)
(* the retry wrapper and its backoff (src/src/errors.rs), the process      *)
(* entry point and the config store (src/src/main.rs, src/src/config.rs),  *)
(* the streaming audio player (src/src/audio.rs) and the two WebSocket     *)
(* commands (src/src/commands/realtime_tts.rs, conversation.rs).           *)
(*                                                                         *)
(* Each subsystem has its own variables, initial condition, actions and    *)
(* specification; a specification leaves the other subsystems' variables   *)
(* at their idle values.                                                   *)
(***************************************************************************)
EXTENDS Integers, Sequences, FiniteSets, TLC

(***************************************************************************)
(* Bounds of the model.                                                    *)
(***************************************************************************)
\* an error text is the concatenation of at most this many fragments
MaxTextTokens == 2
\* the largest max_retries handed to with_retry
MaxRetriesArg == 3
\* the largest attempt number handed to calculate_backoff
MaxAttempt == 66
\* messages the server sends on one WebSocket before it closes or fails
MaxWsMessages == 3
\* lines the conversation's input loop reads
MaxReads == 4
\* send_chunk calls on one player
MaxChunks == 3

VARIABLES
    \* ---- classifier (errors.rs: parse_api_error, is_retryable, print_api_error)
    err_text,        \* the error's Display text
    api_error,       \* the ApiError kind parse_api_error returned, "unset" before
    err_retryable,   \* the Retryable is_retryable returned, "unset" before
    err_printed,     \* the block print_api_error wrote to stderr, "unset" before
    \* ---- with_retry (errors.rs)
    max_retries,     \* the max_retries argument
    attempt,         \* the for loop's variable
    last_error,      \* Option<anyhow::Error>: "None" or [some |-> text]
    retry_pc,        \* "loop" | "sleep" | "done"
    retry_result,    \* "pending", [ok |-> v] or [err |-> text]
    retry_trace,     \* what with_retry did so far: invocations and sleeps, in order
    \* ---- calculate_backoff (errors.rs)
    cb_attempt,      \* the attempt argument (u32)
    cb_retryable,    \* the retryable argument
    overflow_checks, \* the build's overflow-checks flag (debug: TRUE, release: FALSE)
    nanos,           \* SystemTime::now().subsec_nanos() read by rand_simple
    cb_pc,           \* "call" | "returned" | "panicked"
    cb_delay,        \* the local `delay` (ms, before jitter), -1 when never set
    cb_duration,     \* the returned Duration in ms (a U64), <<>> when none
    \* ---- the process (main.rs) and the config store (config.rs)
    config_file,     \* config.toml: its state ("absent", "malformed", "written") and document
    m_pc,            \* "shell" (no process) | "interactive" (the REPL is running)
    m_command,       \* the command line of the last invocation
    handler_result,  \* Some(what the last command handler returned), None if none ran
    exit_code,       \* the last finished process's exit code, -1 before
    stderr,          \* what that process's main (or the runtime) wrote to stderr last
    \* ---- realtime TTS over WebSocket (commands/realtime_tts.rs)
    tts_pc,          \* where execute_ws_tts is
    tts_received,    \* messages taken from ws_receiver so far
    tts_chunk_count, \* chunk_count
    tts_audio,       \* audio_chunks.len()
    tts_ws_error,    \* ws_receiver.next() has yielded Some(Err(e))
    tts_file,        \* the output path: "absent", "old" (someone's file) or "audio"
    tts_result,      \* Some(what execute_ws_tts returned), None while it runs
    \* ---- agent conversation over WebSocket (commands/conversation.rs)
    conv_pc,         \* where start_websocket_conversation's own task is
    conv_sender,     \* the WebSocket sender task: "not_spawned", "running", "ended"
    conv_receiver,   \* the WebSocket receiver task, likewise
    conv_queue,      \* the texts in the mpsc channel input_tx -> input_rx
    conv_sent,       \* user_input messages sent to the agent
    conv_reads,      \* read_line calls that have returned
    conv_stdin,      \* "open" | "eof"
    conv_event,      \* what the receiver task printed last
    conv_ws_error,   \* ws_receiver.next() has yielded Some(Err(e))
    conv_result,     \* Some(what start_websocket_conversation returned), None while it runs
    \* ---- the streaming player (audio.rs)
    pl_sender,       \* StreamingPlayer.sender: "open" | "dropped"
    pl_chunks,       \* the send_chunk calls so far: [size, result], in call order
    pl_channel,      \* the mpsc channel tx -> rx: the chunks (call numbers) in flight
    pl_thread,       \* where the playback thread is
    pl_buffer,       \* buffer: a sequence of byte runs [chunk, lo, hi)
    pl_offered,      \* the decode attempts so far: [branch, data, decoded]
    pl_discarded,    \* the chunks taken from the channel and never put in buffer
    pl_sink,         \* sources appended to the sink and not played to their end
    pl_finish,       \* finish(): "not_called", "joining", returned; or "detached"
    \* ---- the Config methods called one by one (config.rs)
    c_config,        \* self: the Config in memory
    c_file,          \* config.toml
    c_call,          \* the last call: [op, key, save_called]
    c_result,        \* Some(what it returned), None before any call
    c_saved,         \* Some(the Config the file was last written from), None if never
    \* ---- the tts command (commands/tts.rs: execute)
    sp_pc,           \* where execute is: start, request, confirm, write, play, done
    sp_args,         \* [yes, play]: the global --yes flag and the command's --play
    sp_prior,        \* the output path before the command ran
    sp_path,         \* the output path now: [kind, bytes]
    sp_audio,        \* the bytes the API call returned, None before and on failure
    sp_prompt,       \* the overwrite prompt: not_invoked, yes, no, fails
    sp_io,           \* write_bytes_to_file's outcome: none, ok, create_fails, write_fails
    sp_played,       \* play's outcome: none, ok, fails
    sp_result,       \* what execute returned, None while it runs
    \* ---- the commands that ask before they act (commands/*.rs)
    cf_pc,           \* where the handler is: start, status, save, request, done
    cf_command,      \* the handler function that runs
    cf_yes,          \* assume_yes, the global --yes flag
    cf_exists,       \* download_dub: whether the output path exists
    cf_prompts,      \* how many times a prompt was invoked (interact())
    cf_acted,        \* whether the delete / overwrite was carried out
    cf_result,       \* what the handler returned, None while it runs
    \* ---- the MCP server (mcp/server.rs: run_server, handle_tool)
    mcp_pc,          \* start, serving
    mcp_args,        \* Commands::Mcp: [enable_tools, disable_tools, disable_admin]
    mcp_tools,       \* the server's tools field (the enabled tool list)
    mcp_call,        \* the tool name of the last call, "" before any
    mcp_reply,       \* how handle_tool answered it: none, not_available, description
    \* ---- utils::format_to_extension applied to a format string
    fe_pc,           \* start, mapped, remapped
    fe_format,       \* the format string
    fe_ext,          \* format_to_extension(format), "" before the call
    fe_again,        \* format_to_extension of that result, "" before the call
    \* ---- validation::validate_voice_settings applied to three options
    vs_pc,           \* start, done
    vs_args,         \* [stability, similarity_boost, style], each an Option<f32>
    vs_result,       \* what it returned, None before the call
    \* ---- setting resolution (main.rs 35-46, 110-115; cli/tts.rs 16-22)
    pr_pc,           \* "argv", "parsed", "dispatched"
    pr_flags,        \* [format, voice, model]: what the user passed, None if not passed
    pr_config,       \* [default_output_format, default_voice, default_model] of the loaded Config
    pr_cli,          \* [format, voice, model]: the fields clap filled in
    pr_used,         \* [format, voice, model]: what tts::execute sends to the API
    \* ---- commands that write a file (stt.rs 98-105, tts_timestamps.rs 87-126, music.rs 129-137)
    ow_pc,           \* "start", "done"
    ow_command,      \* "stt", "tts-timestamps", "music generate"
    ow_args,         \* [yes, subtitles]: the global --yes flag, whether --subtitles was passed
    ow_prior,        \* [output, subtitles]: what was at each path when the command started
    ow_files,        \* [output, subtitles]: what is at each path now
    ow_prompt,       \* the overwrite prompt's answer, "not_invoked" if it was not shown
    ow_result,       \* None, or Some(result) once execute has returned
    \* ---- tts output format (commands/tts.rs 35 and 95-98; utils.rs 24-79)
    oq_pc,           \* "start", "parsed", "named"
    oq_format,       \* the output_format string main passes to execute
    oq_requested,    \* the OutputFormat variant sent to the API, "" before
    oq_extension     \* the extension of the generated file name, "" before

classifyVars == <<err_text, api_error, err_retryable, err_printed>>
retryVars == <<max_retries, attempt, last_error, retry_pc, retry_result, retry_trace>>
backoffVars == <<cb_attempt, cb_retryable, overflow_checks, nanos, cb_pc, cb_delay, cb_duration>>
mainVars == <<config_file, m_pc, m_command, handler_result, exit_code, stderr>>
ttsVars ==
    <<tts_pc, tts_received, tts_chunk_count, tts_audio, tts_ws_error, tts_file, tts_result>>
convVars ==
    <<conv_pc, conv_sender, conv_receiver, conv_queue, conv_sent, conv_reads, conv_stdin,
      conv_event, conv_ws_error, conv_result>>
playerVars ==
    <<pl_sender, pl_chunks, pl_channel, pl_thread, pl_buffer, pl_offered, pl_discarded,
      pl_sink, pl_finish>>
configVars ==
    <<c_config, c_file, c_call, c_result, c_saved>>
speechVars ==
    <<sp_pc, sp_args, sp_prior, sp_path, sp_audio, sp_prompt, sp_io, sp_played, sp_result>>
confirmVars ==
    <<cf_pc, cf_command, cf_yes, cf_exists, cf_prompts, cf_acted, cf_result>>
mcpVars ==
    <<mcp_pc, mcp_args, mcp_tools, mcp_call, mcp_reply>>
formatVars ==
    <<fe_pc, fe_format, fe_ext, fe_again>>
settingsVars ==
    <<vs_pc, vs_args, vs_result>>
precedenceVars ==
    <<pr_pc, pr_flags, pr_config, pr_cli, pr_used>>
writersVars ==
    <<ow_pc, ow_command, ow_args, ow_prior, ow_files, ow_prompt, ow_result>>
codecVars ==
    <<oq_pc, oq_format, oq_requested, oq_extension>>
vars ==
    <<classifyVars, retryVars, backoffVars, mainVars, ttsVars, convVars, playerVars, configVars, speechVars, confirmVars, mcpVars, formatVars, settingsVars, precedenceVars, writersVars, codecVars>>

\* the variables each subsystem leaves alone
notClassify ==
    <<retryVars, backoffVars, mainVars, ttsVars, convVars, playerVars, configVars, speechVars, confirmVars, mcpVars, formatVars, settingsVars, precedenceVars, writersVars, codecVars>>
notRetry ==
    <<classifyVars, backoffVars, mainVars, ttsVars, convVars, playerVars, configVars, speechVars, confirmVars, mcpVars, formatVars, settingsVars, precedenceVars, writersVars, codecVars>>
notBackoff ==
    <<classifyVars, retryVars, mainVars, ttsVars, convVars, playerVars, configVars, speechVars, confirmVars, mcpVars, formatVars, settingsVars, precedenceVars, writersVars, codecVars>>
notMain ==
    <<classifyVars, retryVars, backoffVars, ttsVars, convVars, playerVars, configVars, speechVars, confirmVars, mcpVars, formatVars, settingsVars, precedenceVars, writersVars, codecVars>>
notTts ==
    <<classifyVars, retryVars, backoffVars, mainVars, convVars, playerVars, configVars, speechVars, confirmVars, mcpVars, formatVars, settingsVars, precedenceVars, writersVars, codecVars>>
notConv ==
    <<classifyVars, retryVars, backoffVars, mainVars, ttsVars, playerVars, configVars, speechVars, confirmVars, mcpVars, formatVars, settingsVars, precedenceVars, writersVars, codecVars>>
notPlayer ==
    <<classifyVars, retryVars, backoffVars, mainVars, ttsVars, convVars, configVars, speechVars, confirmVars, mcpVars, formatVars, settingsVars, precedenceVars, writersVars, codecVars>>
notConfig ==
    <<classifyVars, retryVars, backoffVars, mainVars, ttsVars, convVars, playerVars, speechVars, confirmVars, mcpVars, formatVars, settingsVars, precedenceVars, writersVars, codecVars>>
notSpeech ==
    <<classifyVars, retryVars, backoffVars, mainVars, ttsVars, convVars, playerVars, configVars, confirmVars, mcpVars, formatVars, settingsVars, precedenceVars, writersVars, codecVars>>
notConfirm ==
    <<classifyVars, retryVars, backoffVars, mainVars, ttsVars, convVars, playerVars, configVars, speechVars, mcpVars, formatVars, settingsVars, precedenceVars, writersVars, codecVars>>
notMcp ==
    <<classifyVars, retryVars, backoffVars, mainVars, ttsVars, convVars, playerVars, configVars, speechVars, confirmVars, formatVars, settingsVars, precedenceVars, writersVars, codecVars>>
notFormat ==
    <<classifyVars, retryVars, backoffVars, mainVars, ttsVars, convVars, playerVars, configVars, speechVars, confirmVars, mcpVars, settingsVars, precedenceVars, writersVars, codecVars>>
notSettings ==
    <<classifyVars, retryVars, backoffVars, mainVars, ttsVars, convVars, playerVars, configVars, speechVars, confirmVars, mcpVars, formatVars, precedenceVars, writersVars, codecVars>>
notPrecedence ==
    <<classifyVars, retryVars, backoffVars, mainVars, ttsVars, convVars, playerVars, configVars, speechVars, confirmVars, mcpVars, formatVars, settingsVars, writersVars, codecVars>>
notWriters ==
    <<classifyVars, retryVars, backoffVars, mainVars, ttsVars, convVars, playerVars, configVars, speechVars, confirmVars, mcpVars, formatVars, settingsVars, precedenceVars, codecVars>>
notCodec ==
    <<classifyVars, retryVars, backoffVars, mainVars, ttsVars, convVars, playerVars, configVars, speechVars, confirmVars, mcpVars, formatVars, settingsVars, precedenceVars, writersVars>>

(***************************************************************************)
(* Strings.  An error text is a TLA+ string; contains and to_lowercase     *)
(* are computed character by character.                                    *)
(***************************************************************************)
Contains(s, p) ==
    \E i \in 1..(Len(s) + 1 - Len(p)) : SubSeq(s, i, i + Len(p) - 1) = p

UpperChars == "ABCDEFGHIJKLMNOPQRSTUVWXYZ"
LowerChars == "abcdefghijklmnopqrstuvwxyz"

LowerChar(c) ==
    IF \E k \in 1..Len(UpperChars) : SubSeq(UpperChars, k, k) = c
    THEN LET k == CHOOSE k \in 1..Len(UpperChars) : SubSeq(UpperChars, k, k) = c
         IN  SubSeq(LowerChars, k, k)
    ELSE c

RECURSIVE to_lowercase(_)
to_lowercase(s) ==
    IF Len(s) = 0 THEN ""
    ELSE LowerChar(SubSeq(s, 1, 1)) \o to_lowercase(SubSeq(s, 2, Len(s)))

(***************************************************************************)
(* The error texts of the model: every concatenation of at most            *)
(* MaxTextTokens fragments.  The fragments are status codes, pieces of     *)
(* status codes (so that a code can straddle two fragments or overlap      *)
(* another), and the phrases of HTTP reason lines and of ApiError's        *)
(* Display, in the upper/lower case they are printed in.                   *)
(***************************************************************************)
TextTokens ==
    { "401", "403", "404", "429", "500", "4", "29", " ",
      "Unauthorized", "API key is required", "Forbidden", "Not Found",
      "Rate limit", "Request timed out", "timeout", "400 Bad Request" }

RECURSIVE TextsOfTokens(_)
TextsOfTokens(n) ==
    IF n = 0 THEN {""}
    ELSE LET shorter == TextsOfTokens(n - 1)
         IN  shorter \cup { s \o t : s \in shorter, t \in TextTokens }

Texts == TextsOfTokens(MaxTextTokens)

(***************************************************************************)
(* errors.rs: the classifier.                                              *)
(***************************************************************************)
is_missing_api_key(err) ==
    LET error_str == to_lowercase(err)
    IN  Contains(error_str, "api key")
        /\ (Contains(error_str, "required") \/ Contains(error_str, "none"))

is_unauthorized(err) ==
    LET error_str == to_lowercase(err)
    IN  \/ Contains(error_str, "401")
        \/ Contains(error_str, "unauthorized")
        \/ Contains(error_str, "invalid api key")

is_forbidden(err) ==
    LET error_str == to_lowercase(err)
    IN  \/ Contains(error_str, "403")
        \/ Contains(error_str, "forbidden")
        \/ Contains(error_str, "permission denied")

is_not_found(err) ==
    LET error_str == to_lowercase(err)
    IN  Contains(error_str, "404") \/ Contains(error_str, "not found")

is_rate_limited(err) ==
    LET error_str == to_lowercase(err)
    IN  \/ Contains(error_str, "429")
        \/ Contains(error_str, "rate limit")
        \/ Contains(error_str, "too many requests")

is_server_error(err) ==
    LET error_str == to_lowercase(err)
    IN  \/ Contains(error_str, "500")
        \/ Contains(error_str, "502")
        \/ Contains(error_str, "503")
        \/ Contains(error_str, "504")
        \/ Contains(error_str, "server error")

is_network_error(err) ==
    LET error_str == to_lowercase(err)
    IN  \/ Contains(error_str, "connection")
        \/ Contains(error_str, "network")
        \/ Contains(error_str, "timeout")
        \/ Contains(error_str, "connect")

\* parse_api_error with the rate-limit test moved before the not-found test
parse_api_error_RateLimitFirst(err) ==
    IF is_missing_api_key(err) THEN "MissingApiKey"
    ELSE IF is_unauthorized(err) THEN "Unauthorized"
    ELSE IF is_forbidden(err) THEN "Forbidden"
    ELSE IF is_rate_limited(err) THEN "RateLimited"
    ELSE IF is_not_found(err) THEN "NotFound"
    ELSE IF is_server_error(err) THEN "ServerError"
    ELSE IF is_network_error(err) THEN "NetworkError"
    ELSE "Other"

\* The ApiError variant (its payload dropped) parse_api_error returns.
parse_api_error(err) ==
    IF is_missing_api_key(err) THEN "MissingApiKey"
    ELSE IF is_unauthorized(err) THEN "Unauthorized"
    ELSE IF is_forbidden(err) THEN "Forbidden"
    ELSE IF is_not_found(err) THEN "NotFound"
    ELSE IF is_rate_limited(err) THEN "RateLimited"
    ELSE IF is_server_error(err) THEN "ServerError"
    ELSE IF is_network_error(err) THEN "NetworkError"
    ELSE "Other"

\* ApiError::retryable with NotFound taken for a transient error
retryable_NotFoundTransient(kind) ==
    IF kind \in {"MissingApiKey", "Unauthorized", "Forbidden"} THEN "No"
    ELSE IF kind = "RateLimited" THEN "YesWithBackoff"
    ELSE "Yes"

\* ApiError::retryable
retryable(kind) ==
    CASE kind = "MissingApiKey" -> "No"
      [] kind = "Unauthorized"  -> "No"
      [] kind = "Forbidden"     -> "No"
      [] kind = "NotFound"      -> "No"
      [] kind = "RateLimited"   -> "YesWithBackoff"
      [] kind = "ServerError"   -> "Yes"
      [] kind = "NetworkError"  -> "Yes"
      [] kind = "Timeout"       -> "Yes"
      [] kind = "Other"         -> "Yes"

is_retryable(err) == retryable(parse_api_error(err))

\* The block print_api_error writes to stderr, named by its first line.
print_api_error(err) ==
    IF is_missing_api_key(err) THEN "Error: API key is required"
    ELSE IF is_unauthorized(err) THEN "Error: Invalid API key"
    ELSE IF is_forbidden(err) THEN "Error: Permission denied"
    ELSE IF is_not_found(err) THEN "Error: Resource not found"
    ELSE IF is_rate_limited(err) THEN "Error: Rate limited"
    ELSE IF is_server_error(err) THEN "Error: Server error"
    ELSE IF is_network_error(err) THEN "Error: Network error"
    ELSE "Error: " \o err

\* What print_retry_error writes, named by its first line.
print_retry_error(err) ==
    CASE is_retryable(err) = "YesWithBackoff" -> "Rate limited (attempt)"
      [] is_retryable(err) = "Yes"            -> "Transient error (attempt)"
      [] is_retryable(err) = "No"             -> print_api_error(err)

(***************************************************************************)
(* Fixed-width unsigned integers.  A u64 (u32) is kept as 8 (4) limbs of   *)
(* 8 bits, least significant first, so that products that do not fit are   *)
(* computed as the machine computes them.                                  *)
(***************************************************************************)
LimbBase == 2^8
U32Limbs == 32 \div 8
U64Limbs == 64 \div 8

RECURSIVE NatToLimbs(_, _)
NatToLimbs(n, w) ==
    IF w = 0 THEN <<>> ELSE <<n % LimbBase>> \o NatToLimbs(n \div LimbBase, w - 1)

\* the value of limbs a when it is below 2^24 (all the model reads back)
LimbsFitNat(a) == \A i \in 1..Len(a) : i > 3 => a[i] = 0
LimbsToNat(a) == a[1] + LimbBase * a[2] + LimbBase * LimbBase * a[3]

RECURSIVE ColumnSum(_, _, _, _)
ColumnSum(a, b, k, i) ==
    IF i > Len(a) THEN 0
    ELSE (IF k + 1 - i \in 1..Len(b) THEN a[i] * b[k + 1 - i] ELSE 0)
         + ColumnSum(a, b, k, i + 1)

\* carry propagation over the column sums, from column k on
RECURSIVE Propagate(_, _, _)
Propagate(cols, k, carry) ==
    IF k > Len(cols) THEN <<>>
    ELSE CHOOSE r \in { <<t % LimbBase>> \o Propagate(cols, k + 1, t \div LimbBase) :
                        t \in {cols[k] + carry} } : TRUE

\* the exact product, Len(a) + Len(b) limbs
MulFull(a, b) ==
    CHOOSE r \in { Propagate(cols, 1, 0) :
                   cols \in {[k \in 1..(Len(a) + Len(b)) |-> ColumnSum(a, b, k, 1)]} } : TRUE

\* the exact sum of two numbers of the same width, one limb more
AddFull(a, b) ==
    CHOOSE r \in { Propagate(cols, 1, 0) :
                   cols \in {[k \in 1..(Len(a) + 1) |-> IF k <= Len(a) THEN a[k] + b[k] ELSE 0]} } : TRUE

Truncate(x, w) == SubSeq(x, 1, w)
Overflows(x, w) == \E i \in (w + 1)..Len(x) : x[i] # 0

\* a / d for a small divisor d, by short division from the top limb
RECURSIVE DivStep(_, _, _, _)
DivStep(a, d, i, rem) ==
    IF i = 0 THEN <<>>
    ELSE CHOOSE r \in { DivStep(a, d, i - 1, t % d) \o <<t \div d>> :
                        t \in {rem * LimbBase + a[i]} } : TRUE
DivSmall(a, d) == DivStep(a, d, Len(a), 0)

RECURSIVE LimbsLess(_, _, _)
LimbsLess(a, b, i) ==
    IF i = 0 THEN FALSE
    ELSE IF a[i] # b[i] THEN a[i] < b[i]
    ELSE LimbsLess(a, b, i - 1)
\* a < b, for two numbers of the same width
U64Less(a, b) == LimbsLess(a, b, Len(a))
U64Min(a, b) == IF U64Less(b, a) THEN b ELSE a

\* u64 multiplication: [value, overflow]; the value is the wrapped product
U64Mul(a, b) ==
    LET full == MulFull(a, b)
    IN  [value |-> Truncate(full, U64Limbs), overflow |-> Overflows(full, U64Limbs)]

\* 2u64.pow(exp): the product of exp twos.  The wrapped product is the bit
\* exp of a u64 (zero when there is no such bit); it overflows from 2^64 on.
U64Pow2(exp) ==
    [value    |-> [i \in 1..U64Limbs |-> IF exp \div 8 = i - 1 THEN 2^(exp % 8) ELSE 0],
     overflow |-> exp >= 64]

(***************************************************************************)
(* errors.rs: the backoff.                                                 *)
(***************************************************************************)
MAX_RETRIES == 3
INITIAL_BACKOFF_MS == 1000
MAX_BACKOFF_MS == 30000

\* the subsec_nanos values the model draws (any value below 10^9 can be read)
NanosSamples == {0, 1, 500000000, 999999999}

\* rand_simple: nanos.wrapping_mul(1103515245).wrapping_add(12345), a u32
rand_simple(n) ==
    LET prod == Truncate(MulFull(NatToLimbs(n, U32Limbs),
                                 NatToLimbs(1103515245, U32Limbs)), U32Limbs)
    IN  Truncate(AddFull(prod, NatToLimbs(12345, U32Limbs)), U32Limbs)

\* base_delay of calculate_backoff: [value, overflow]
base_delay(att, r) ==
    IF r = "YesWithBackoff"
    THEN U64Mul(NatToLimbs(INITIAL_BACKOFF_MS, U64Limbs), NatToLimbs(4, U64Limbs))
    ELSE LET pow  == U64Pow2(att - 1)
             prod == U64Mul(NatToLimbs(INITIAL_BACKOFF_MS, U64Limbs), pow.value)
         IN  [value |-> prod.value, overflow |-> pow.overflow \/ prod.overflow]

\* calculate_backoff(attempt, retryable) under a build with or without
\* overflow checks, rand_simple reading n nanoseconds:
\* [panicked, delay (the local, -1 when none), duration (ms)]
calculate_backoff(att, r, checks, n) ==
    IF r = "No"
    THEN [panicked |-> FALSE, delay |-> -1, duration |-> NatToLimbs(0, U64Limbs)]
    ELSE LET base == base_delay(att, r)
         IN  IF checks /\ base.overflow
             THEN [panicked |-> TRUE, delay |-> -1, duration |-> <<>>]
             ELSE LET delay  == U64Min(base.value, NatToLimbs(MAX_BACKOFF_MS, U64Limbs))
                      rnd    == rand_simple(n) \o NatToLimbs(0, U64Limbs - U32Limbs)
                      jitter == DivSmall(U64Mul(rnd, delay).value, 4000)
                  IN  [panicked |-> FALSE,
                       delay    |-> LimbsToNat(delay),
                       duration |-> Truncate(AddFull(delay, jitter), U64Limbs)]

BackoffInit ==
    /\ cb_attempt \in 1..MaxAttempt
    /\ cb_retryable \in {"Yes", "No", "YesWithBackoff"}
    /\ overflow_checks \in BOOLEAN
    /\ nanos \in NanosSamples
    /\ cb_pc = "call"
    /\ cb_delay = -1
    /\ cb_duration = <<>>

BackoffIdle ==
    /\ cb_attempt = 1
    /\ cb_retryable = "No"
    /\ overflow_checks = FALSE
    /\ nanos = 0
    /\ cb_pc = "idle"
    /\ cb_delay = -1
    /\ cb_duration = <<>>

\* one call of calculate_backoff
CalculateBackoff ==
    /\ cb_pc = "call"
    /\ \E r \in {calculate_backoff(cb_attempt, cb_retryable, overflow_checks, nanos)} :
           /\ cb_pc' = IF r.panicked THEN "panicked" ELSE "returned"
           /\ cb_delay' = r.delay
           /\ cb_duration' = r.duration
    /\ UNCHANGED <<cb_attempt, cb_retryable, overflow_checks, nanos>>
    /\ UNCHANGED notBackoff


(***************************************************************************)
(* The classifier applied to one error text.                               *)
(***************************************************************************)
ClassifyInit ==
    /\ err_text \in Texts
    /\ api_error = "unset"
    /\ err_retryable = "unset"
    /\ err_printed = "unset"

ClassifyIdle ==
    /\ err_text = ""
    /\ api_error = "idle"
    /\ err_retryable = "idle"
    /\ err_printed = "idle"

\* is_retryable(err): parse_api_error(err).retryable()
IsRetryable ==
    /\ api_error = "unset"
    /\ api_error' = parse_api_error(err_text)
    /\ err_retryable' = is_retryable(err_text)
    /\ UNCHANGED <<err_text, err_printed>>
    /\ UNCHANGED notClassify

\* print_api_error(err)
PrintApiError ==
    /\ err_printed = "unset"
    /\ err_printed' = print_api_error(err_text)
    /\ UNCHANGED <<err_text, api_error, err_retryable>>
    /\ UNCHANGED notClassify

(***************************************************************************)
(* errors.rs: with_retry.  The operation is any closure: each invocation   *)
(* returns Ok with some value or Err with some error text.                 *)
(***************************************************************************)
OkValues == {"v1", "v2"}

\* the error texts the operation may fail with: one or more of each kind
OperationErrors ==
    { "API key is required", "401 Unauthorized", "403 Forbidden", "404 Not Found",
      "429 Rate limit", "500", "timeout", "400 Bad Request", "Request timed out" }

RetryInit ==
    /\ max_retries \in 0..MaxRetriesArg
    /\ attempt = 1
    /\ last_error = "None"
    /\ retry_pc = "loop"
    /\ retry_result = "pending"
    /\ retry_trace = <<>>

RetryIdle ==
    /\ max_retries = 0
    /\ attempt = 0
    /\ last_error = "None"
    /\ retry_pc = "idle"
    /\ retry_result = "idle"
    /\ retry_trace = <<>>

\* the break test without its `attempt == max_retries` half
RetryBreaks_NoLastAttemptTest(r, att, max) == r = "No"

\* `retryable == Retryable::No || attempt == max_retries`: leave the loop
RetryBreaks(r, att, max) == r = "No" \/ att = max

\* operation().await returned Ok(result): return Ok(result)
InvokeOk(v) ==
    /\ retry_pc = "loop"
    /\ attempt <= max_retries
    /\ retry_trace' = Append(retry_trace, [ev |-> "invoke", attempt |-> attempt, out |-> [ok |-> v]])
    /\ retry_result' = [ok |-> v]
    /\ retry_pc' = "done"
    /\ UNCHANGED <<max_retries, attempt, last_error>>
    /\ UNCHANGED notRetry

\* operation().await returned Err(e): break, or print and start the sleep
InvokeErr(e) ==
    /\ retry_pc = "loop"
    /\ attempt <= max_retries
    /\ last_error' = [some |-> e]
    /\ retry_trace' = Append(retry_trace, [ev |-> "invoke", attempt |-> attempt, out |-> [err |-> e]])
    /\ IF RetryBreaks(is_retryable(e), attempt, max_retries)
       THEN /\ retry_result' = [err |-> e]
            /\ retry_pc' = "done"
       ELSE /\ retry_result' = retry_result
            /\ retry_pc' = "sleep"
    /\ UNCHANGED <<max_retries, attempt>>
    /\ UNCHANGED notRetry

\* tokio::time::sleep(calculate_backoff(attempt, retryable)).await ends:
\* the next iteration of the for loop
SleepDone ==
    /\ retry_pc = "sleep"
    /\ retry_trace' = Append(retry_trace,
           [ev |-> "sleep", attempt |-> attempt, retryable |-> is_retryable(last_error.some),
            printed |-> print_retry_error(last_error.some)])
    /\ attempt' = attempt + 1
    /\ retry_pc' = "loop"
    /\ UNCHANGED <<max_retries, last_error, retry_result>>
    /\ UNCHANGED notRetry

\* the range 1..=max_retries is exhausted without a break:
\* Err(last_error.unwrap_or_else(|| anyhow!("Unknown error")))
LoopExhausted ==
    /\ retry_pc = "loop"
    /\ attempt > max_retries
    /\ retry_result' = [err |-> IF last_error = "None" THEN "Unknown error" ELSE last_error.some]
    /\ retry_pc' = "done"
    /\ UNCHANGED <<max_retries, attempt, last_error, retry_trace>>
    /\ UNCHANGED notRetry


(***************************************************************************)
(* config.rs: the Config record and its TOML file.  An Option<String> is   *)
(* <<>> (None) or <<s>> (Some(s)).  A TOML document is the keys it holds:  *)
(* a None field is not written, and a key that is missing reads as the     *)
(* field's default.                                                        *)
(***************************************************************************)
None == <<>>
Some(v) == <<v>>

\* the strings a config value, --api-key or ELEVENLABS_API_KEY may hold
ValueStrings == {"", "a"}
OptionStrings == {None} \cup { Some(v) : v \in ValueStrings }

\* the keys Config::set and Config::unset match on
ConfigKeys == {"api_key", "default_voice", "default_model", "default_output_format"}
\* the keys a user may type: the allowlist and one that is not on it
TypedKeys == ConfigKeys \cup {"unknown_key"}

McpStringKeys == {"enable_tools", "disable_tools"}
McpBoolKeys == {"disable_admin", "disable_destructive", "read_only"}

\* McpConfig::default()
McpConfigDefault ==
    [enable_tools |-> None, disable_tools |-> None, disable_admin |-> FALSE,
     disable_destructive |-> FALSE, read_only |-> FALSE]

\* the McpConfig values of the model
McpConfigs ==
    { McpConfigDefault,
      [enable_tools |-> Some("a"), disable_tools |-> None, disable_admin |-> TRUE,
       disable_destructive |-> FALSE, read_only |-> FALSE] }

\* Config::default()
ConfigDefault ==
    [api_key |-> None, default_voice |-> None, default_model |-> None,
     default_output_format |-> None, mcp |-> McpConfigDefault]

Configs ==
    [api_key : OptionStrings, default_voice : OptionStrings, default_model : OptionStrings,
     default_output_format : OptionStrings, mcp : McpConfigs]

\* a serializer that also leaves out the fields holding an empty string
ToToml_SkipEmpty(c) ==
    [top |-> [k \in {k \in ConfigKeys : c[k] # None /\ c[k] # Some("")} |-> c[k][1]],
     mcp_strings |-> [k \in {k \in McpStringKeys : c.mcp[k] # None /\ c.mcp[k] # Some("")}
                          |-> c.mcp[k][1]],
     mcp_bools |-> [k \in McpBoolKeys |-> c.mcp[k]]]

\* toml::to_string_pretty(&config): the Some fields, then the [mcp] table
ToToml(c) ==
    [top |-> [k \in {k \in ConfigKeys : c[k] # None} |-> c[k][1]],
     mcp_strings |-> [k \in {k \in McpStringKeys : c.mcp[k] # None} |-> c.mcp[k][1]],
     mcp_bools |-> [k \in McpBoolKeys |-> c.mcp[k]]]

\* toml::from_str(&contents): a missing key is None (or false: #[serde(default)])
FromToml(doc) ==
    [api_key |-> IF "api_key" \in DOMAIN doc.top THEN Some(doc.top["api_key"]) ELSE None,
     default_voice |-> IF "default_voice" \in DOMAIN doc.top THEN Some(doc.top["default_voice"]) ELSE None,
     default_model |-> IF "default_model" \in DOMAIN doc.top THEN Some(doc.top["default_model"]) ELSE None,
     default_output_format |->
         IF "default_output_format" \in DOMAIN doc.top THEN Some(doc.top["default_output_format"]) ELSE None,
     mcp |-> [enable_tools |-> IF "enable_tools" \in DOMAIN doc.mcp_strings
                               THEN Some(doc.mcp_strings["enable_tools"]) ELSE None,
              disable_tools |-> IF "disable_tools" \in DOMAIN doc.mcp_strings
                                THEN Some(doc.mcp_strings["disable_tools"]) ELSE None,
              disable_admin |-> IF "disable_admin" \in DOMAIN doc.mcp_bools
                                THEN doc.mcp_bools["disable_admin"] ELSE FALSE,
              disable_destructive |-> IF "disable_destructive" \in DOMAIN doc.mcp_bools
                                      THEN doc.mcp_bools["disable_destructive"] ELSE FALSE,
              read_only |-> IF "read_only" \in DOMAIN doc.mcp_bools
                            THEN doc.mcp_bools["read_only"] ELSE FALSE]]

\* anyhow::Result<()>: Ok(()) or [err |-> text]
Ok == [ok |-> "()"]

\* config.toml: not there, there but not TOML, or a document
FileAbsent == [state |-> "absent", doc |-> ToToml(ConfigDefault)]
FileMalformed == [state |-> "malformed", doc |-> ToToml(ConfigDefault)]

\* Config::load: [result, config]
Config_load(file) ==
    IF file.state = "absent" THEN [result |-> Ok, config |-> ConfigDefault]
    ELSE IF file.state = "malformed"
    THEN [result |-> [err |-> "TOML parse error"], config |-> ConfigDefault]
    ELSE [result |-> Ok, config |-> FromToml(file.doc)]

\* Config::save: the whole file is rewritten from self
Config_save(c) == [state |-> "written", doc |-> ToToml(c)]

\* a set that saves before it looks at the key
Config_set_SaveFirst(c, key, value, file) ==
    IF key \in ConfigKeys
    THEN LET c2 == [c EXCEPT ![key] = Some(value)]
         IN  [result |-> Ok, config |-> c2, file |-> Config_save(c2)]
    ELSE [result |-> [err |-> "Unknown config key: " \o key], config |-> c,
          file |-> Config_save(c)]

\* Config::set(&mut self, key, value): [result, config, file]
Config_set(c, key, value, file) ==
    IF key \in ConfigKeys
    THEN LET c2 == [c EXCEPT ![key] = Some(value)]
         IN  [result |-> Ok, config |-> c2, file |-> Config_save(c2)]
    ELSE [result |-> [err |-> "Unknown config key: " \o key], config |-> c, file |-> file]

\* Config::unset(&mut self, key): [result, config, file]
Config_unset(c, key, file) ==
    IF key \in ConfigKeys
    THEN LET c2 == [c EXCEPT ![key] = None]
         IN  [result |-> Ok, config |-> c2, file |-> Config_save(c2)]
    ELSE [result |-> [err |-> "Unknown config key: " \o key], config |-> c, file |-> file]

(***************************************************************************)
(* main.rs: one process per invocation.  Each Run action is one whole run  *)
(* of main for one command line; the interactive command keeps the process *)
(* alive between the lines the user types.                                 *)
(***************************************************************************)
NothingWritten == [by |-> "nobody", text |-> ""]
\* what the Rust runtime writes when main returns Err(e): "Error: {e:?}"
Termination(e) == [by |-> "main returned Err", text |-> "Error: " \o e]
\* what print_api_error wrote
ApiErrorBlock(e) == [by |-> "print_api_error", text |-> print_api_error(e)]
\* main.rs line 104: print_api_error(&anyhow!("API key is required"))
MissingKeyBlock == ApiErrorBlock("API key is required")
\* what output::print_error wrote
PrintError(msg) == [by |-> "print_error", text |-> msg]

\* the error texts a command handler may fail with
HandlerErrors == {"401 Unauthorized", "404 Not Found", "429 Rate limit", "Text cannot be empty"}

CommandLine(cmd, key, cli_api_key) == [cmd |-> cmd, key |-> key, api_key |-> cli_api_key]

\* main.rs lines 92-98: the loaded config with --api-key / ELEVENLABS_API_KEY over it
OverrideApiKey(c, cli_api_key) ==
    IF cli_api_key # None THEN [c EXCEPT !.api_key = cli_api_key] ELSE c

\* a gate that lets an empty key through
HasApiKey_EmptyAccepted(c) == c.api_key # None

\* main.rs lines 101-107: `Some(key) if !key.is_empty()`
HasApiKey(c) == c.api_key # None /\ c.api_key[1] # ""

MainInit ==
    /\ config_file \in {FileAbsent, FileMalformed} \cup { Config_save(c) : c \in Configs }
    /\ m_pc = "shell"
    /\ m_command = CommandLine("none", "", None)
    /\ handler_result = None
    /\ exit_code = -1
    /\ stderr = NothingWritten

MainIdle ==
    /\ config_file = FileAbsent
    /\ m_pc = "idle"
    /\ m_command = CommandLine("none", "", None)
    /\ handler_result = None
    /\ exit_code = -1
    /\ stderr = NothingWritten

\* the process ends: main returned `result`, or called process::exit
Exit(result) ==
    IF result = Ok
    THEN exit_code' = 0 /\ stderr' = NothingWritten
    ELSE exit_code' = 1 /\ stderr' = Termination(result.err)

\* lines 92-107 fail: Config::load()? returns the error, or no key: exit(1)
StartupFails(cli_api_key) ==
    \/ Config_load(config_file).result # Ok
    \/ ~HasApiKey(OverrideApiKey(Config_load(config_file).config, cli_api_key))

StartupExit(cli_api_key) ==
    /\ handler_result' = None
    /\ IF Config_load(config_file).result # Ok
       THEN Exit(Config_load(config_file).result)
       ELSE exit_code' = 1 /\ stderr' = MissingKeyBlock
    /\ UNCHANGED <<config_file, m_pc>>

\* no subcommand: print help, process::exit(0)
RunHelp(cli_api_key) ==
    /\ m_pc = "shell"
    /\ m_command' = CommandLine("help", "", cli_api_key)
    /\ handler_result' = None
    /\ exit_code' = 0
    /\ stderr' = NothingWritten
    /\ UNCHANGED <<config_file, m_pc>>
    /\ UNCHANGED notMain

\* `completions <shell>`: generate, return Ok(())
RunCompletions(cli_api_key) ==
    /\ m_pc = "shell"
    /\ m_command' = CommandLine("completions", "", cli_api_key)
    /\ handler_result' = None
    /\ Exit(Ok)
    /\ UNCHANGED <<config_file, m_pc>>
    /\ UNCHANGED notMain

\* `mcp`: return mcp::run_server(..).await, which reads the config
\* (Config::load().unwrap_or_default()) and serves until it ends or fails
RunMcp(cli_api_key, result) ==
    /\ m_pc = "shell"
    /\ m_command' = CommandLine("mcp", "", cli_api_key)
    /\ handler_result' = Some(result)
    /\ Exit(result)
    /\ UNCHANGED <<config_file, m_pc>>
    /\ UNCHANGED notMain

\* `config show`
RunConfigShow(cli_api_key) ==
    /\ m_pc = "shell"
    /\ m_command' = CommandLine("config show", "", cli_api_key)
    /\ IF StartupFails(cli_api_key)
       THEN StartupExit(cli_api_key)
       ELSE /\ handler_result' = Some(Ok)
            /\ Exit(Ok)
            /\ UNCHANGED <<config_file, m_pc>>
    /\ UNCHANGED notMain

\* `config set <key> <value>`: commands::config::set_config on main's config
RunConfigSet(cli_api_key, key, value) ==
    /\ m_pc = "shell"
    /\ m_command' = CommandLine("config set", key, cli_api_key)
    /\ IF StartupFails(cli_api_key)
       THEN StartupExit(cli_api_key)
       ELSE \E r \in {Config_set(OverrideApiKey(Config_load(config_file).config, cli_api_key),
                                 key, value, config_file)} :
                /\ config_file' = r.file
                /\ handler_result' = Some(r.result)
                /\ Exit(r.result)
                /\ UNCHANGED m_pc
    /\ UNCHANGED notMain

\* `config unset <key>`: commands::config::unset_config on main's config
RunConfigUnset(cli_api_key, key) ==
    /\ m_pc = "shell"
    /\ m_command' = CommandLine("config unset", key, cli_api_key)
    /\ IF StartupFails(cli_api_key)
       THEN StartupExit(cli_api_key)
       ELSE \E r \in {Config_unset(OverrideApiKey(Config_load(config_file).config, cli_api_key),
                                   key, config_file)} :
                /\ config_file' = r.file
                /\ handler_result' = Some(r.result)
                /\ Exit(r.result)
                /\ UNCHANGED m_pc
    /\ UNCHANGED notMain

\* any command that calls the API (tts, stt, voice, ...): the handler returns
\* `result` and main passes it on with `?`
RunApiCommand(cli_api_key, result) ==
    /\ m_pc = "shell"
    /\ m_command' = CommandLine("api command", "", cli_api_key)
    /\ IF StartupFails(cli_api_key)
       THEN StartupExit(cli_api_key)
       ELSE /\ handler_result' = Some(result)
            /\ Exit(result)
            /\ UNCHANGED <<config_file, m_pc>>
    /\ UNCHANGED notMain

\* `interactive`: run_interactive_mode starts its loop
RunInteractive(cli_api_key) ==
    /\ m_pc = "shell"
    /\ m_command' = CommandLine("interactive", "", cli_api_key)
    /\ IF StartupFails(cli_api_key)
       THEN StartupExit(cli_api_key)
       ELSE /\ handler_result' = None
            /\ m_pc' = "interactive"
            /\ exit_code' = -1
            /\ stderr' = NothingWritten
            /\ UNCHANGED config_file
    /\ UNCHANGED notMain

\* a line `voices`, `models`, `user` or `tts ...`: the handler's error is
\* printed with print_error and the loop goes on
InteractiveCommand(result) ==
    /\ m_pc = "interactive"
    /\ handler_result' = Some(result)
    /\ stderr' = IF result = Ok THEN stderr ELSE PrintError("Failed: " \o result.err)
    /\ UNCHANGED <<config_file, m_pc, m_command, exit_code>>
    /\ UNCHANGED notMain

\* `exit` or `quit`: break, Ok(()); or reading the line fails: interact_text()?
InteractiveEnds(result) ==
    /\ m_pc = "interactive"
    /\ m_pc' = "shell"
    /\ exit_code' = IF result = Ok THEN 0 ELSE 1
    /\ stderr' = IF result = Ok THEN stderr ELSE Termination(result.err)
    /\ UNCHANGED <<config_file, m_command, handler_result>>
    /\ UNCHANGED notMain

HandlerResults == {Ok} \cup { [err |-> e] : e \in HandlerErrors }

NextMain ==
    \/ \E k \in OptionStrings : RunHelp(k)
    \/ \E k \in OptionStrings : RunCompletions(k)
    \/ \E k \in OptionStrings, r \in {Ok, [err |-> "connection closed"]} : RunMcp(k, r)
    \/ \E k \in OptionStrings : RunConfigShow(k)
    \/ \E k \in OptionStrings, key \in TypedKeys, v \in ValueStrings : RunConfigSet(k, key, v)
    \/ \E k \in OptionStrings, key \in TypedKeys : RunConfigUnset(k, key)
    \/ \E k \in OptionStrings, r \in HandlerResults : RunApiCommand(k, r)
    \/ \E k \in OptionStrings : RunInteractive(k)
    \/ \E r \in HandlerResults : InteractiveCommand(r)
    \/ \E r \in {Ok, [err |-> "IO error: not a terminal"]} : InteractiveEnds(r)



(***************************************************************************)
(* commands/realtime_tts.rs: execute_ws_tts.  The server and the network   *)
(* choose what ws_receiver.next() yields.  The optional StreamingPlayer    *)
(* has no part in the result: an error of send_chunk or finish is only     *)
(* printed as a warning.                                                   *)
(***************************************************************************)
Err(e) == [err |-> e]

\* the byte lengths of a Binary message
ChunkLens == {0, 1, 2}

TtsInit ==
    /\ tts_pc = "connect"
    /\ tts_received = 0
    /\ tts_chunk_count = 0
    /\ tts_audio = 0
    /\ tts_ws_error = FALSE
    /\ tts_file \in {"absent", "old"}
    /\ tts_result = None

TtsIdle ==
    /\ tts_pc = "idle"
    /\ tts_received = 0
    /\ tts_chunk_count = 0
    /\ tts_audio = 0
    /\ tts_ws_error = FALSE
    /\ tts_file = "absent"
    /\ tts_result = None

TtsReturn(result) ==
    /\ tts_pc' = "returned"
    /\ tts_result' = Some(result)

\* timeout(30 s, connect_async(..)).await.context(..)?.context(..)?
TtsConnect(outcome) ==
    /\ tts_pc = "connect"
    /\ IF outcome = "connected"
       THEN tts_pc' = "send_bos" /\ UNCHANGED tts_result
       ELSE TtsReturn(Err(IF outcome = "elapsed" THEN "Connection timeout"
                          ELSE "Failed to connect to ElevenLabs WebSocket"))
    /\ UNCHANGED <<tts_received, tts_chunk_count, tts_audio, tts_ws_error, tts_file>>
    /\ UNCHANGED notTts

\* ws_sender.send(bos).await.context("Failed to send BOS message")?
TtsSendBos(sent) ==
    /\ tts_pc = "send_bos"
    /\ IF sent
       THEN tts_pc' = "send_text" /\ UNCHANGED tts_result
       ELSE TtsReturn(Err("Failed to send BOS message"))
    /\ UNCHANGED <<tts_received, tts_chunk_count, tts_audio, tts_ws_error, tts_file>>
    /\ UNCHANGED notTts

\* ws_sender.send(text_msg).await.context("Failed to send text message")?
TtsSendText(sent) ==
    /\ tts_pc = "send_text"
    /\ IF sent
       THEN tts_pc' = "receive" /\ UNCHANGED tts_result
       ELSE TtsReturn(Err("Failed to send text message"))
    /\ UNCHANGED <<tts_received, tts_chunk_count, tts_audio, tts_ws_error, tts_file>>
    /\ UNCHANGED notTts

\* Ok(Message::Binary(data)): count it and keep its bytes
TtsRecvBinary(len) ==
    /\ tts_pc = "receive"
    /\ tts_received < MaxWsMessages
    /\ tts_received' = tts_received + 1
    /\ tts_chunk_count' = tts_chunk_count + 1
    /\ tts_audio' = tts_audio + len
    /\ UNCHANGED <<tts_pc, tts_ws_error, tts_file, tts_result>>
    /\ UNCHANGED notTts

\* Ok(Message::Text(text)): a JSON object with "error" returns the error, one
\* with "is_final": true ends the loop, anything else is passed over
TtsRecvText(kind) ==
    /\ tts_pc = "receive"
    /\ tts_received < MaxWsMessages
    /\ tts_received' = tts_received + 1
    /\ IF kind = "error" THEN TtsReturn(Err("API error: \"quota_exceeded\""))
       ELSE IF kind = "is_final" THEN tts_pc' = "after_loop" /\ UNCHANGED tts_result
       ELSE UNCHANGED <<tts_pc, tts_result>>
    /\ UNCHANGED <<tts_chunk_count, tts_audio, tts_ws_error, tts_file>>
    /\ UNCHANGED notTts

\* Ok(Message::Close(_)), or the stream ends (next() yields None): leave the loop
TtsRecvClose ==
    /\ tts_pc = "receive"
    /\ tts_received' = tts_received + 1
    /\ tts_pc' = "after_loop"
    /\ UNCHANGED <<tts_chunk_count, tts_audio, tts_ws_error, tts_file, tts_result>>
    /\ UNCHANGED notTts

\* Err(e): print_info("WebSocket error: ..") and break
TtsRecvErr ==
    /\ tts_pc = "receive"
    /\ tts_received' = tts_received + 1
    /\ tts_ws_error' = TRUE
    /\ tts_pc' = "after_loop"
    /\ UNCHANGED <<tts_chunk_count, tts_audio, tts_file, tts_result>>
    /\ UNCHANGED notTts

\* utils::confirm_overwrite(path, assume_yes): Ok(true) when there is no file
\* or with --yes; otherwise the prompt's answer, Ok(false) when it fails
confirm_overwrite(file, assume_yes, answer) ==
    IF file = "absent" THEN TRUE
    ELSE IF assume_yes THEN TRUE
    ELSE answer = "yes"

\* after the loop: player.finish(), the emptiness test, the overwrite
\* question, the write
TtsSave(assume_yes, answer, written) ==
    /\ tts_pc = "after_loop"
    /\ IF tts_audio = 0
       THEN TtsReturn(Err("No audio data received")) /\ UNCHANGED tts_file
       ELSE IF ~confirm_overwrite(tts_file, assume_yes, answer)
       THEN TtsReturn(Ok) /\ UNCHANGED tts_file
       ELSE IF written
       THEN TtsReturn(Ok) /\ tts_file' = "audio"
       ELSE TtsReturn(Err("IO error: permission denied")) /\ UNCHANGED tts_file
    /\ UNCHANGED <<tts_received, tts_chunk_count, tts_audio, tts_ws_error>>
    /\ UNCHANGED notTts

NextTts ==
    \/ \E o \in {"connected", "elapsed", "refused"} : TtsConnect(o)
    \/ \E sent \in BOOLEAN : TtsSendBos(sent)
    \/ \E sent \in BOOLEAN : TtsSendText(sent)
    \/ \E len \in ChunkLens : TtsRecvBinary(len)
    \/ \E kind \in {"error", "is_final", "other"} : TtsRecvText(kind)
    \/ TtsRecvClose
    \/ TtsRecvErr
    \/ \E yes \in BOOLEAN, answer \in {"yes", "no", "failed"}, written \in BOOLEAN :
           TtsSave(yes, answer, written)


(***************************************************************************)
(* commands/conversation.rs: start_websocket_conversation.  Three tasks:   *)
(* the function's own input loop, the spawned WebSocket sender task fed by *)
(* the channel, and the spawned WebSocket receiver task.                   *)
(***************************************************************************)
\* mpsc::channel::<String>(32)
InputChannelCapacity == 32

ConvInit ==
    /\ conv_pc = "connect"
    /\ conv_sender = "not_spawned"
    /\ conv_receiver = "not_spawned"
    /\ conv_queue = <<>>
    /\ conv_sent = 0
    /\ conv_reads = 0
    /\ conv_stdin = "open"
    /\ conv_event = "none"
    /\ conv_ws_error = FALSE
    /\ conv_result = None

ConvIdle ==
    /\ conv_pc = "idle"
    /\ conv_sender = "not_spawned"
    /\ conv_receiver = "not_spawned"
    /\ conv_queue = <<>>
    /\ conv_sent = 0
    /\ conv_reads = 0
    /\ conv_stdin = "open"
    /\ conv_event = "none"
    /\ conv_ws_error = FALSE
    /\ conv_result = None

ConvReturn(result) ==
    /\ conv_pc' = "returned"
    /\ conv_result' = Some(result)

\* timeout(WS_CONNECT_TIMEOUT_SECS, connect_async(..)).await.context(..)?.context(..)?
ConvConnect(outcome) ==
    /\ conv_pc = "connect"
    /\ IF outcome = "connected"
       THEN conv_pc' = "send_init" /\ UNCHANGED conv_result
       ELSE ConvReturn(Err(IF outcome = "elapsed" THEN "Connection timeout"
                           ELSE "Failed to connect to ElevenLabs WebSocket"))
    /\ UNCHANGED <<conv_sender, conv_receiver, conv_queue, conv_sent, conv_reads,
                   conv_stdin, conv_event, conv_ws_error>>
    /\ UNCHANGED notConv

\* send the initialization message, create the channel, spawn both tasks
ConvSendInit(sent) ==
    /\ conv_pc = "send_init"
    /\ IF sent
       THEN /\ conv_pc' = "prompt"
            /\ conv_sender' = "running"
            /\ conv_receiver' = "running"
            /\ UNCHANGED conv_result
       ELSE /\ ConvReturn(Err("Failed to send initialization message"))
            /\ UNCHANGED <<conv_sender, conv_receiver>>
    /\ UNCHANGED <<conv_queue, conv_sent, conv_reads, conv_stdin, conv_event, conv_ws_error>>
    /\ UNCHANGED notConv

\* sender task: input_rx.recv() yields a text; ws_sender.send(..) succeeds, or
\* fails and the task breaks (dropping input_rx and what it holds)
ConvSenderSend(sent) ==
    /\ conv_sender = "running"
    /\ conv_pc # "returned"
    /\ conv_queue # <<>>
    /\ IF sent
       THEN /\ conv_queue' = Tail(conv_queue)
            /\ conv_sent' = conv_sent + 1
            /\ UNCHANGED conv_sender
       ELSE /\ conv_queue' = <<>>
            /\ conv_sender' = "ended"
            /\ UNCHANGED conv_sent
    /\ UNCHANGED <<conv_pc, conv_receiver, conv_reads, conv_stdin, conv_event,
                   conv_ws_error, conv_result>>
    /\ UNCHANGED notConv

\* receiver task: Ok(Message::Text(..)) is printed by event type; the task goes on
ConvRecvText(event) ==
    /\ conv_receiver = "running"
    /\ conv_pc # "returned"
    /\ conv_event' = event
    /\ UNCHANGED <<conv_pc, conv_sender, conv_receiver, conv_queue, conv_sent, conv_reads,
                   conv_stdin, conv_ws_error, conv_result>>
    /\ UNCHANGED notConv

\* receiver task: Ok(Message::Close(_)) (print_warning, break) or the stream ends
ConvRecvClose ==
    /\ conv_receiver = "running"
    /\ conv_pc # "returned"
    /\ conv_event' = "Connection closed by server"
    /\ conv_receiver' = "ended"
    /\ UNCHANGED <<conv_pc, conv_sender, conv_queue, conv_sent, conv_reads, conv_stdin,
                   conv_ws_error, conv_result>>
    /\ UNCHANGED notConv

\* receiver task: Err(e): print_error("WebSocket error: ..") and break
ConvRecvErr ==
    /\ conv_receiver = "running"
    /\ conv_pc # "returned"
    /\ conv_event' = "WebSocket error"
    /\ conv_ws_error' = TRUE
    /\ conv_receiver' = "ended"
    /\ UNCHANGED <<conv_pc, conv_sender, conv_queue, conv_sent, conv_reads, conv_stdin,
                   conv_result>>
    /\ UNCHANGED notConv

\* standard input reaches end-of-file
ConvStdinEof ==
    /\ conv_pc \in {"prompt", "send"}
    /\ conv_stdin = "open"
    /\ conv_stdin' = "eof"
    /\ UNCHANGED <<conv_pc, conv_sender, conv_receiver, conv_queue, conv_sent, conv_reads,
                   conv_event, conv_ws_error, conv_result>>
    /\ UNCHANGED notConv

\* input loop: flush, read_line (Ok(0) and an empty line at end-of-file);
\* an empty text goes round the loop again.  The user types at most MaxReads
\* lines; at end-of-file read_line returns at once, any number of times, and
\* the count stays at MaxReads
ConvReadLine(line) ==
    /\ conv_pc = "prompt"
    /\ conv_stdin = "eof" \/ conv_reads < MaxReads
    /\ conv_stdin = "eof" => line = ""
    /\ conv_reads' = IF conv_reads < MaxReads THEN conv_reads + 1 ELSE conv_reads
    /\ conv_pc' = IF line = "" THEN "prompt" ELSE "send"
    /\ UNCHANGED <<conv_sender, conv_receiver, conv_queue, conv_sent, conv_stdin,
                   conv_event, conv_ws_error, conv_result>>
    /\ UNCHANGED notConv

\* input loop: flush()? or read_line(..)? fails
ConvReadFails ==
    /\ conv_pc = "prompt"
    /\ ConvReturn(Err("IO error: broken pipe"))
    /\ UNCHANGED <<conv_sender, conv_receiver, conv_queue, conv_sent, conv_reads,
                   conv_stdin, conv_event, conv_ws_error>>
    /\ UNCHANGED notConv

\* input loop: input_tx.send(text).await: an error (the sender task has
\* dropped input_rx) breaks the loop; a full channel makes it wait
ConvInputSend ==
    /\ conv_pc = "send"
    /\ IF conv_sender = "ended"
       THEN conv_pc' = "join" /\ UNCHANGED conv_queue
       ELSE /\ Len(conv_queue) < InputChannelCapacity
            /\ conv_queue' = Append(conv_queue, "hi")
            /\ conv_pc' = "prompt"
    /\ UNCHANGED <<conv_sender, conv_receiver, conv_sent, conv_reads, conv_stdin,
                   conv_event, conv_ws_error, conv_result>>
    /\ UNCHANGED notConv

\* let _ = tokio::try_join!(ws_sender_handle, ws_receiver_handle); Ok(())
ConvJoin ==
    /\ conv_pc = "join"
    /\ conv_sender = "ended"
    /\ conv_receiver = "ended"
    /\ ConvReturn(Ok)
    /\ UNCHANGED <<conv_sender, conv_receiver, conv_queue, conv_sent, conv_reads,
                   conv_stdin, conv_event, conv_ws_error>>
    /\ UNCHANGED notConv

ConvEvents == {"conversation_initiation_metadata", "agent_response", "error"}

NextConv ==
    \/ \E o \in {"connected", "elapsed", "refused"} : ConvConnect(o)
    \/ \E sent \in BOOLEAN : ConvSendInit(sent)
    \/ \E sent \in BOOLEAN : ConvSenderSend(sent)
    \/ \E event \in ConvEvents : ConvRecvText(event)
    \/ ConvRecvClose
    \/ ConvRecvErr
    \/ ConvStdinEof
    \/ \E line \in {"", "hi"} : ConvReadLine(line)
    \/ ConvReadFails
    \/ ConvInputSend
    \/ ConvJoin

\* one command runs: realtime TTS or the agent conversation
WsInit == (TtsInit /\ ConvIdle) \/ (TtsIdle /\ ConvInit)

NextWs == NextTts \/ NextConv



(***************************************************************************)
(* audio.rs: StreamingPlayer.  The producer calls send_chunk and finish    *)
(* (or drops the player); the playback thread runs the receive loop; the   *)
(* audio device plays what is in the sink.  Bytes are kept as runs         *)
(* [chunk, lo, hi): bytes lo .. hi-1 of the chunk of that send_chunk call. *)
(***************************************************************************)
\* let min_chunk_size = 4096
min_chunk_size == 4096

\* the sizes of the chunks handed to send_chunk
ChunkSizes == {1, 2048, 8192}

RECURSIVE BufLen(_)
\* buffer.len()
BufLen(buf) ==
    IF buf = <<>> THEN 0 ELSE (Head(buf).hi - Head(buf).lo) + BufLen(Tail(buf))

\* extend_from_slice with the chunk put in at the front of the buffer
extend_from_slice_AtFront(buf, c, size) ==
    IF size = 0 THEN buf ELSE <<[chunk |-> c, lo |-> 0, hi |-> size]>> \o buf

\* buffer.extend_from_slice(&chunk)
extend_from_slice(buf, c, size) ==
    IF size = 0 THEN buf ELSE Append(buf, [chunk |-> c, lo |-> 0, hi |-> size])

RECURSIVE drain(_, _)
\* buffer.drain(..keep): the first `keep` bytes are removed
drain(buf, keep) ==
    IF keep = 0 \/ buf = <<>> THEN buf
    ELSE LET n == Head(buf).hi - Head(buf).lo
         IN  IF n <= keep THEN drain(Tail(buf), keep - n)
             ELSE <<[Head(buf) EXCEPT !.lo = @ + keep]>> \o Tail(buf)

\* audio.rs lines 66-70: `let keep = buffer.len() / 2; if keep > 0 && keep <
\* buffer.len() { buffer.drain(..keep); }`
KeepForContinuity(buf) ==
    LET keep == BufLen(buf) \div 2
    IN  IF keep > 0 /\ keep < BufLen(buf) THEN drain(buf, keep) ELSE buf

\* Decoder::new(Cursor::new(buffer.clone())) in one of the three branches,
\* and whether it returned Ok (the source is then appended to the sink)
Attempt(branch, buf, decoded) == [branch |-> branch, data |-> buf, decoded |-> decoded]

\* the thread is inside `loop { match rx.recv_timeout(..) { .. } }`
InLoop(th) == th \in {"recv", "timeout_check"}

\* the thread's closure has ended, so rx has been dropped
RxDropped(th) == th \in {"terminated", "panicked"}

PlayerInit ==
    /\ pl_sender = "open"
    /\ pl_chunks = <<>>
    /\ pl_channel = <<>>
    /\ pl_thread = "spawned"
    /\ pl_buffer = <<>>
    /\ pl_offered = <<>>
    /\ pl_discarded = {}
    /\ pl_sink = 0
    /\ pl_finish = "not_called"

PlayerIdle ==
    /\ pl_sender = "none"
    /\ pl_chunks = <<>>
    /\ pl_channel = <<>>
    /\ pl_thread = "none"
    /\ pl_buffer = <<>>
    /\ pl_offered = <<>>
    /\ pl_discarded = {}
    /\ pl_sink = 0
    /\ pl_finish = "none"

\* send_chunk(&self, chunk): sender.send(chunk.to_vec())?, an error once rx is dropped
SendChunk(size) ==
    /\ pl_sender = "open"
    /\ Len(pl_chunks) < MaxChunks
    /\ IF RxDropped(pl_thread)
       THEN /\ pl_chunks' = Append(pl_chunks, [size |-> size, result |-> "Err"])
            /\ UNCHANGED pl_channel
       ELSE /\ pl_chunks' = Append(pl_chunks, [size |-> size, result |-> "Ok"])
            /\ pl_channel' = Append(pl_channel, Len(pl_chunks) + 1)
    /\ UNCHANGED <<pl_sender, pl_thread, pl_buffer, pl_offered, pl_discarded, pl_sink,
                   pl_finish>>
    /\ UNCHANGED notPlayer

\* finish(self): drop(self.sender), then handle.join()
Finish ==
    /\ pl_finish = "not_called"
    /\ pl_sender' = "dropped"
    /\ pl_finish' = "joining"
    /\ UNCHANGED <<pl_chunks, pl_channel, pl_thread, pl_buffer, pl_offered, pl_discarded,
                   pl_sink>>
    /\ UNCHANGED notPlayer

\* a join that returns without waiting for the thread
JoinReturns_WithoutWaiting(th) == TRUE

\* handle.join() returns when the thread has ended
JoinReturns(th) == th \in {"terminated", "panicked"}

\* finish(self): join returned; a panic becomes Err("Thread panicked: ..")
FinishJoined ==
    /\ pl_finish = "joining"
    /\ JoinReturns(pl_thread)
    /\ pl_finish' = IF pl_thread = "panicked" THEN "returned_err" ELSE "returned_ok"
    /\ UNCHANGED <<pl_sender, pl_chunks, pl_channel, pl_thread, pl_buffer, pl_offered,
                   pl_discarded, pl_sink>>
    /\ UNCHANGED notPlayer

\* the player is dropped without finish (the caller returned early): the
\* sender is dropped and the thread is detached
DropPlayer ==
    /\ pl_finish = "not_called"
    /\ pl_sender' = "dropped"
    /\ pl_finish' = "detached"
    /\ UNCHANGED <<pl_chunks, pl_channel, pl_thread, pl_buffer, pl_offered, pl_discarded,
                   pl_sink>>
    /\ UNCHANGED notPlayer

\* the thread starts: OutputStream::try_default().unwrap() and
\* Sink::try_new(..).unwrap() panic when there is no output device
ThreadStart(device) ==
    /\ pl_thread = "spawned"
    /\ pl_thread' = IF device THEN "recv" ELSE "panicked"
    /\ pl_channel' = IF device THEN pl_channel ELSE <<>>
    /\ UNCHANGED <<pl_sender, pl_chunks, pl_buffer, pl_offered, pl_discarded, pl_sink,
                   pl_finish>>
    /\ UNCHANGED notPlayer

\* recv_timeout yields Ok(chunk): extend the buffer; at min_chunk_size bytes
\* or more, decode a clone of it and drop its first half
ThreadRecvOk(decoded) ==
    /\ pl_thread = "recv"
    /\ pl_channel # <<>>
    /\ pl_channel' = Tail(pl_channel)
    /\ \E buf \in {extend_from_slice(pl_buffer, Head(pl_channel),
                                     pl_chunks[Head(pl_channel)].size)} :
           IF BufLen(buf) >= min_chunk_size
           THEN /\ pl_offered' = Append(pl_offered, Attempt("Ok", buf, decoded))
                /\ pl_sink' = IF decoded THEN pl_sink + 1 ELSE pl_sink
                /\ pl_buffer' = KeepForContinuity(buf)
           ELSE /\ decoded
                /\ pl_buffer' = buf
                /\ UNCHANGED <<pl_offered, pl_sink>>
    /\ UNCHANGED <<pl_sender, pl_chunks, pl_thread, pl_discarded, pl_finish>>
    /\ UNCHANGED notPlayer

\* recv_timeout yields Err(Timeout): nothing arrived for 100 ms and the
\* sender is there; decode what the buffer holds and clear it
ThreadRecvTimeout(decoded) ==
    /\ pl_thread = "recv"
    /\ pl_channel = <<>>
    /\ pl_sender = "open"
    /\ IF pl_buffer # <<>>
       THEN /\ pl_offered' = Append(pl_offered, Attempt("Timeout", pl_buffer, decoded))
            /\ pl_sink' = IF decoded THEN pl_sink + 1 ELSE pl_sink
            /\ pl_buffer' = <<>>
       ELSE /\ decoded
            /\ UNCHANGED <<pl_offered, pl_sink, pl_buffer>>
    /\ pl_thread' = "timeout_check"
    /\ UNCHANGED <<pl_sender, pl_chunks, pl_channel, pl_discarded, pl_finish>>
    /\ UNCHANGED notPlayer

\* `if sink.empty() && rx.try_recv().is_err() { break; }`: try_recv is an
\* error when the channel is empty (sender there or not); when it is Ok the
\* chunk it took is dropped
ThreadTimeoutCheck ==
    /\ pl_thread = "timeout_check"
    /\ IF pl_sink # 0
       THEN /\ pl_thread' = "recv"
            /\ UNCHANGED <<pl_channel, pl_discarded>>
       ELSE IF pl_channel = <<>>
       THEN /\ pl_thread' = "drain"
            /\ UNCHANGED <<pl_channel, pl_discarded>>
       ELSE /\ pl_thread' = "recv"
            /\ pl_channel' = Tail(pl_channel)
            /\ pl_discarded' = pl_discarded \cup {Head(pl_channel)}
    /\ UNCHANGED <<pl_sender, pl_chunks, pl_buffer, pl_offered, pl_sink, pl_finish>>
    /\ UNCHANGED notPlayer

\* recv_timeout yields Err(Disconnected): the channel is empty and the
\* sender dropped; decode what the buffer holds and break
ThreadRecvDisconnected(decoded) ==
    /\ pl_thread = "recv"
    /\ pl_channel = <<>>
    /\ pl_sender = "dropped"
    /\ IF pl_buffer # <<>>
       THEN /\ pl_offered' = Append(pl_offered, Attempt("Disconnected", pl_buffer, decoded))
            /\ pl_sink' = IF decoded THEN pl_sink + 1 ELSE pl_sink
       ELSE /\ decoded
            /\ UNCHANGED <<pl_offered, pl_sink>>
    /\ pl_thread' = "drain"
    /\ UNCHANGED <<pl_sender, pl_chunks, pl_channel, pl_buffer, pl_discarded, pl_finish>>
    /\ UNCHANGED notPlayer

\* sink.sleep_until_end() returns and the closure ends: rx is dropped with
\* what it holds
ThreadEnds ==
    /\ pl_thread = "drain"
    /\ pl_sink = 0
    /\ pl_thread' = "terminated"
    /\ pl_channel' = <<>>
    /\ UNCHANGED <<pl_sender, pl_chunks, pl_buffer, pl_offered, pl_discarded, pl_sink,
                   pl_finish>>
    /\ UNCHANGED notPlayer

\* the audio device plays the sink's current source to its end
SinkPlays ==
    /\ pl_sink > 0
    /\ pl_sink' = pl_sink - 1
    /\ UNCHANGED <<pl_sender, pl_chunks, pl_channel, pl_thread, pl_buffer, pl_offered,
                   pl_discarded, pl_finish>>
    /\ UNCHANGED notPlayer

NextPlayer ==
    \/ \E size \in ChunkSizes : SendChunk(size)
    \/ Finish
    \/ FinishJoined
    \/ DropPlayer
    \/ \E device \in BOOLEAN : ThreadStart(device)
    \/ \E decoded \in BOOLEAN : ThreadRecvOk(decoded)
    \/ \E decoded \in BOOLEAN : ThreadRecvTimeout(decoded)
    \/ ThreadTimeoutCheck
    \/ \E decoded \in BOOLEAN : ThreadRecvDisconnected(decoded)
    \/ ThreadEnds
    \/ SinkPlays

(***************************************************************************)
(* config.rs: the methods of Config called one after another on one value  *)
(* and one file.  The file system accepts every write (create_dir_all and  *)
(* fs::write succeed), as in Config_set and Config_unset above.            *)
(***************************************************************************)
\* every McpConfig over the model's strings
AllMcpConfigs ==
    [enable_tools : OptionStrings, disable_tools : OptionStrings, disable_admin : BOOLEAN,
     disable_destructive : BOOLEAN, read_only : BOOLEAN]

\* every Config over the model's strings
AllConfigs ==
    [api_key : OptionStrings, default_voice : OptionStrings, default_model : OptionStrings,
     default_output_format : OptionStrings, mcp : AllMcpConfigs]

\* keys that are not on the allowlist: another name, another case, the empty
\* key, a field of the mcp table
UnknownKeys == {"unknown_key", "API_KEY", "", "read_only"}

Call(op, key, save_called) == [op |-> op, key |-> key, save_called |-> save_called]

\* a Config and a file that may have nothing to do with it
ConfigInitFrom(configs) ==
    /\ c_config \in configs
    /\ c_file \in {FileAbsent, FileMalformed}
    /\ c_call = Call("none", "", FALSE)
    /\ c_result = None
    /\ c_saved = None

ConfigInit == ConfigInitFrom(Configs)

ConfigIdle ==
    /\ c_config = ConfigDefault
    /\ c_file = FileAbsent
    /\ c_call = Call("idle", "", FALSE)
    /\ c_result = None
    /\ c_saved = None

\* Config::load(): self becomes what was loaded
ConfigLoad ==
    /\ c_call.op # "idle"
    /\ c_call' = Call("load", "", FALSE)
    /\ \E r \in {Config_load(c_file)} :
           /\ c_result' = Some(r.result)
           /\ c_config' = IF r.result = Ok THEN r.config ELSE c_config
    /\ UNCHANGED <<c_file, c_saved>>
    /\ UNCHANGED notConfig

\* config.save()
ConfigSave ==
    /\ c_call.op # "idle"
    /\ c_call' = Call("save", "", TRUE)
    /\ c_file' = Config_save(c_config)
    /\ c_saved' = Some(c_config)
    /\ c_result' = Some(Ok)
    /\ UNCHANGED c_config
    /\ UNCHANGED notConfig

\* what a set or unset that returned r did: save was called exactly when the
\* match did not return early
SetEffect(op, key, r) ==
    /\ c_call' = Call(op, key, r.result = Ok)
    /\ c_config' = r.config
    /\ c_file' = r.file
    /\ c_result' = Some(r.result)
    /\ c_saved' = IF r.result = Ok THEN Some(r.config) ELSE c_saved

\* config.set(key, value)
ConfigSet(key, value) ==
    /\ c_call.op # "idle"
    /\ \E r \in {Config_set(c_config, key, value, c_file)} : SetEffect("set", key, r)
    /\ UNCHANGED notConfig

\* config.unset(key)
ConfigUnset(key) ==
    /\ c_call.op # "idle"
    /\ \E r \in {Config_unset(c_config, key, c_file)} : SetEffect("unset", key, r)
    /\ UNCHANGED notConfig

NextConfig ==
    \/ ConfigLoad
    \/ ConfigSave
    \/ \E key \in ConfigKeys \cup UnknownKeys, value \in ValueStrings : ConfigSet(key, value)
    \/ \E key \in ConfigKeys \cup UnknownKeys : ConfigUnset(key)

\* save and load alone, from every Config
NextRoundTrip ==
    \/ ConfigLoad
    \/ ConfigSave

(***************************************************************************)
(* The tts command with --output (commands/tts.rs: execute).  The output   *)
(* path is absent, a file with some bytes, or a directory.  The steps      *)
(* before the API call (input text, its length, the output format, the     *)
(* voice settings) are one step that passes or fails.                      *)
(***************************************************************************)
Absent == [kind |-> "absent", bytes |-> <<>>]
Directory == [kind |-> "dir", bytes |-> <<>>]
RegularFile(bytes) == [kind |-> "file", bytes |-> bytes]

AudioBytes == {<<>>, <<1>>, <<1, 2>>}
PriorPaths == {Absent, Directory} \cup {RegularFile(b) : b \in {<<>>, <<7>>, <<1, 2>>}}

\* File::create opens the file and appends the bytes to what it holds
write_bytes_to_file_Append(file, bytes, io, written) ==
    IF file.kind = "dir" \/ io = "create_fails"
    THEN [file |-> file, result |-> Err("IO error: create")]
    ELSE IF io = "write_fails" /\ written < Len(bytes)
    THEN [file |-> RegularFile(file.bytes \o SubSeq(bytes, 1, written)),
          result |-> Err("IO error: write")]
    ELSE [file |-> RegularFile(file.bytes \o bytes), result |-> Ok]

\* utils::write_bytes_to_file(bytes, path): File::create creates the file or
\* truncates it, and fails on a directory or when the path cannot be opened;
\* write_all writes every byte, or fails after `written` of them
write_bytes_to_file(file, bytes, io, written) ==
    IF file.kind = "dir" \/ io = "create_fails"
    THEN [file |-> file, result |-> Err("IO error: create")]
    ELSE IF io = "write_fails" /\ written < Len(bytes)
    THEN [file |-> RegularFile(SubSeq(bytes, 1, written)),
          result |-> Err("IO error: write")]
    ELSE [file |-> RegularFile(bytes), result |-> Ok]

SpeechInit ==
    /\ sp_pc = "start"
    /\ sp_args \in [yes : BOOLEAN, play : BOOLEAN]
    /\ sp_prior \in PriorPaths
    /\ sp_path = sp_prior
    /\ sp_audio = None
    /\ sp_prompt = "not_invoked"
    /\ sp_io = "none"
    /\ sp_played = "none"
    /\ sp_result = None

SpeechIdle ==
    /\ sp_pc = "idle"
    /\ sp_args = [yes |-> FALSE, play |-> FALSE]
    /\ sp_prior = Absent
    /\ sp_path = Absent
    /\ sp_audio = None
    /\ sp_prompt = "not_invoked"
    /\ sp_io = "none"
    /\ sp_played = "none"
    /\ sp_result = None

SpeechReturn(r) ==
    /\ sp_pc' = "done"
    /\ sp_result' = Some(r)

\* get_input_text, validate_text_length, parse_output_format,
\* validate_voice_settings: each returns early with `?`
SpeechStart(valid) ==
    /\ sp_pc = "start"
    /\ IF valid
       THEN sp_pc' = "request" /\ UNCHANGED sp_result
       ELSE SpeechReturn(Err("invalid input"))
    /\ UNCHANGED <<sp_args, sp_prior, sp_path, sp_audio, sp_prompt, sp_io, sp_played>>
    /\ UNCHANGED notSpeech

\* client.hit(endpoint).await.map_err(..)?
SpeechRequest(response) ==
    /\ sp_pc = "request"
    /\ IF response = None
       THEN SpeechReturn(Err("API error")) /\ UNCHANGED sp_audio
       ELSE sp_pc' = "confirm" /\ sp_audio' = response /\ UNCHANGED sp_result
    /\ UNCHANGED <<sp_args, sp_prior, sp_path, sp_prompt, sp_io, sp_played>>
    /\ UNCHANGED notSpeech

\* if !confirm_overwrite(path, assume_yes)? { print_info("Cancelled"); return Ok(()) }
\* the prompt is shown only when the path exists and --yes was not given
SpeechConfirm(answer) ==
    /\ sp_pc = "confirm"
    /\ sp_prompt' = IF sp_path.kind # "absent" /\ ~sp_args.yes THEN answer ELSE "not_invoked"
    /\ IF confirm_overwrite(sp_path.kind, sp_args.yes, answer)
       THEN sp_pc' = "write" /\ UNCHANGED sp_result
       ELSE SpeechReturn(Ok)
    /\ UNCHANGED <<sp_args, sp_prior, sp_path, sp_audio, sp_io, sp_played>>
    /\ UNCHANGED notSpeech

\* write_bytes_to_file(&audio, path)?
SpeechWrite(io, written) ==
    /\ sp_pc = "write"
    /\ written \in 0..Len(sp_audio[1])
    /\ \E w \in {write_bytes_to_file(sp_path, sp_audio[1], io, written)} :
        /\ sp_path' = w.file
        /\ sp_io' = IF w.result = Ok THEN "ok"
                    ELSE IF w.file = sp_path THEN "create_fails" ELSE "write_fails"
        /\ IF w.result # Ok
           THEN SpeechReturn(w.result)
           ELSE IF sp_args.play
           THEN sp_pc' = "play" /\ UNCHANGED sp_result
           ELSE SpeechReturn(Ok)
    /\ UNCHANGED <<sp_args, sp_prior, sp_audio, sp_prompt, sp_played>>
    /\ UNCHANGED notSpeech

\* if args.play { elevenlabs_rs::utils::play(audio).map_err(..)? }  Ok(())
SpeechPlay(played) ==
    /\ sp_pc = "play"
    /\ sp_played' = IF played THEN "ok" ELSE "fails"
    /\ SpeechReturn(IF played THEN Ok ELSE Err("playback error"))
    /\ UNCHANGED <<sp_args, sp_prior, sp_path, sp_audio, sp_prompt, sp_io>>
    /\ UNCHANGED notSpeech

NextSpeech ==
    \/ \E valid \in BOOLEAN : SpeechStart(valid)
    \/ \E response \in {None} \cup {Some(b) : b \in AudioBytes} : SpeechRequest(response)
    \/ \E answer \in {"yes", "no", "fails"} : SpeechConfirm(answer)
    \/ \E io \in {"ok", "create_fails", "write_fails"}, written \in 0..2 : SpeechWrite(io, written)
    \/ \E played \in BOOLEAN : SpeechPlay(played)

(***************************************************************************)
(* The handlers that hold a confirmation prompt.  Each runs with the       *)
(* assume_yes flag main read from --yes, where it takes one.               *)
(***************************************************************************)
\* `if !assume_yes { Confirm::new()...interact()? ... }` and then the request
GuardedHandlers ==
    {"delete_voice", "cancel_fine_tune", "delete_conversation", "delete_sample",
     "delete_history_item", "delete_phone_number", "delete_dub"}
\* commands/workspace.rs: the handlers take no assume_yes
WorkspaceHandlers == {"remove_member", "delete_secret", "unshare_resource"}
PromptHandlers == GuardedHandlers \cup WorkspaceHandlers \cup {"download_dub"}

ConfirmInit ==
    /\ cf_pc = "start"
    /\ cf_command \in PromptHandlers
    /\ cf_yes \in BOOLEAN
    /\ cf_exists \in (IF cf_command = "download_dub" THEN BOOLEAN ELSE {FALSE})
    /\ cf_prompts = 0
    /\ cf_acted = FALSE
    /\ cf_result = None

ConfirmIdle ==
    /\ cf_pc = "idle"
    /\ cf_command = "none"
    /\ cf_yes = FALSE
    /\ cf_exists = FALSE
    /\ cf_prompts = 0
    /\ cf_acted = FALSE
    /\ cf_result = None

ConfirmReturn(r) ==
    /\ cf_pc' = "done"
    /\ cf_result' = Some(r)

\* Confirm::new().with_prompt(..).default(false).interact()? followed by
\* `if !confirm { print_info("Cancelled"); return Ok(()) }`, going on to `next`
Interact(answer, next) ==
    /\ cf_prompts' = cf_prompts + 1
    /\ IF answer = "fails" THEN ConfirmReturn(Err("IO error: not a terminal"))
       ELSE IF answer = "no" THEN ConfirmReturn(Ok)
       ELSE cf_pc' = next /\ UNCHANGED cf_result

\* delete_voice, cancel_fine_tune, delete_conversation, delete_sample,
\* delete_history_item, delete_phone_number, delete_dub
GuardedConfirm(answer) ==
    /\ cf_pc = "start"
    /\ cf_command \in GuardedHandlers
    /\ IF ~cf_yes
       THEN Interact(answer, "request")
       ELSE cf_pc' = "request" /\ UNCHANGED <<cf_prompts, cf_result>>
    /\ UNCHANGED <<cf_command, cf_yes, cf_exists, cf_acted>>
    /\ UNCHANGED notConfirm

\* remove_member, delete_secret, unshare_resource
WorkspaceConfirm(answer) ==
    /\ cf_pc = "start"
    /\ cf_command \in WorkspaceHandlers
    /\ Interact(answer, "request")
    /\ UNCHANGED <<cf_command, cf_yes, cf_exists, cf_acted>>
    /\ UNCHANGED notConfirm

\* download_dub: the status request, and the question when it is not "dubbed"
DownloadDubStatus(status, answer) ==
    /\ cf_pc = "start"
    /\ cf_command = "download_dub"
    /\ IF status = "error" THEN ConfirmReturn(Err("API error")) /\ UNCHANGED cf_prompts
       ELSE IF status # "dubbed" THEN Interact(answer, "save")
       ELSE cf_pc' = "save" /\ UNCHANGED <<cf_prompts, cf_result>>
    /\ UNCHANGED <<cf_command, cf_yes, cf_exists, cf_acted>>
    /\ UNCHANGED notConfirm

\* download_dub: the audio request, confirm_overwrite, std::fs::write
DownloadDubSave(fetched, answer, written) ==
    /\ cf_pc = "save"
    /\ IF ~fetched
       THEN ConfirmReturn(Err("API error")) /\ UNCHANGED <<cf_prompts, cf_acted>>
       ELSE /\ cf_prompts' = IF cf_exists /\ ~cf_yes THEN cf_prompts + 1 ELSE cf_prompts
            /\ IF ~confirm_overwrite(IF cf_exists THEN "audio" ELSE "absent", cf_yes, answer)
               THEN ConfirmReturn(Ok) /\ UNCHANGED cf_acted
               ELSE IF written
               THEN ConfirmReturn(Ok) /\ cf_acted' = TRUE
               ELSE ConfirmReturn(Err("IO error: write")) /\ UNCHANGED cf_acted
    /\ UNCHANGED <<cf_command, cf_yes, cf_exists>>
    /\ UNCHANGED notConfirm

\* the request that deletes, cancels, removes or unshares
DestructiveRequest(ok) ==
    /\ cf_pc = "request"
    /\ cf_acted' = ok
    /\ ConfirmReturn(IF ok THEN Ok ELSE Err("API error"))
    /\ UNCHANGED <<cf_command, cf_yes, cf_exists, cf_prompts>>
    /\ UNCHANGED notConfirm

NextConfirm ==
    \/ \E answer \in {"yes", "no", "fails"} : GuardedConfirm(answer)
    \/ \E answer \in {"yes", "no", "fails"} : WorkspaceConfirm(answer)
    \/ \E status \in {"dubbed", "dubbing", "error"}, answer \in {"yes", "no", "fails"} :
          DownloadDubStatus(status, answer)
    \/ \E fetched \in BOOLEAN, answer \in {"yes", "no", "fails"}, written \in BOOLEAN :
          DownloadDubSave(fetched, answer, written)
    \/ \E ok \in BOOLEAN : DestructiveRequest(ok)

(***************************************************************************)
(* The MCP server's tool list (mcp/server.rs).  list_tools is cut down to  *)
(* six of its names, in its order; the option strings are split and        *)
(* trimmed as run_server does.                                             *)
(***************************************************************************)
\* str::starts_with
starts_with(s, p) ==
    Len(p) <= Len(s) /\ SubSeq(s, 1, Len(p)) = p

\* str::trim, for blanks
RECURSIVE trim(_)
trim(s) ==
    IF Len(s) > 0 /\ SubSeq(s, 1, 1) = " " THEN trim(SubSeq(s, 2, Len(s)))
    ELSE IF Len(s) > 0 /\ SubSeq(s, Len(s), Len(s)) = " " THEN trim(SubSeq(s, 1, Len(s) - 1))
    ELSE s

\* str::split(','): the pieces between the commas, one piece for a string
\* without a comma, the empty string included
RECURSIVE split(_, _)
split(s, sep) ==
    IF \E i \in 1..Len(s) : SubSeq(s, i, i) = sep
    THEN LET i == CHOOSE k \in 1..Len(s) :
                      /\ SubSeq(s, k, k) = sep
                      /\ \A j \in 1..(k - 1) : SubSeq(s, j, j) # sep
         IN  <<SubSeq(s, 1, i - 1)>> \o split(SubSeq(s, i + 1, Len(s)), sep)
    ELSE <<s>>

\* enable_tools.map(|s| s.split(',').map(|t| t.trim()).collect()).unwrap_or_default()
ParseTools(option) ==
    IF option = None THEN <<>>
    ELSE LET pieces == split(option[1], ",")
         IN  [i \in 1..Len(pieces) |-> trim(pieces[i])]

Elements(seq) == {seq[i] : i \in 1..Len(seq)}

\* Iterator::filter(..).collect()
RECURSIVE Filter(_, _)
Filter(seq, keep) ==
    IF seq = <<>> THEN <<>>
    ELSE (IF Head(seq) \in keep THEN <<Head(seq)>> ELSE <<>>) \o Filter(Tail(seq), keep)

list_tools ==
    <<"text_to_speech", "list_voices", "delete_voice", "create_agent", "update_agent",
      "delete_tool">>

ToolOptions ==
    {None, Some(""), Some("delete_voice"), Some("list_voices, delete_voice"),
     Some("text_to_speech,update_agent"), Some("no_such_tool")}

\* run_server: `if !enabled.is_empty() {..} else if !disabled.is_empty() {..} else {..}`
filtered_tools(enabled, disabled) ==
    IF enabled # <<>>
    THEN Filter(list_tools, Elements(enabled))
    ELSE IF disabled # <<>>
    THEN Filter(list_tools, Elements(list_tools) \ Elements(disabled))
    ELSE list_tools

McpInit ==
    /\ mcp_pc = "start"
    /\ mcp_args \in [enable_tools : ToolOptions, disable_tools : ToolOptions,
                     disable_admin : BOOLEAN]
    /\ mcp_tools = list_tools
    /\ mcp_call = ""
    /\ mcp_reply = "none"

McpIdle ==
    /\ mcp_pc = "idle"
    /\ mcp_args = [enable_tools |-> None, disable_tools |-> None, disable_admin |-> FALSE]
    /\ mcp_tools = list_tools
    /\ mcp_call = ""
    /\ mcp_reply = "none"

\* main hands enable_tools and disable_tools to run_server (disable_admin is
\* not passed on); ElevenLabsMcpServer::new().with_tools(filtered_tools)
McpRunServer ==
    /\ mcp_pc = "start"
    /\ mcp_pc' = "serving"
    /\ mcp_tools' = filtered_tools(ParseTools(mcp_args.enable_tools),
                                   ParseTools(mcp_args.disable_tools))
    /\ UNCHANGED <<mcp_args, mcp_call, mcp_reply>>
    /\ UNCHANGED notMcp

\* handle_tool(name, args): `if !self.tools.contains(&name)` answers that the
\* tool is not available, otherwise the tool's description
McpHandleTool(name) ==
    /\ mcp_pc = "serving"
    /\ mcp_call' = name
    /\ mcp_reply' = IF name \notin Elements(mcp_tools) THEN "not_available" ELSE "description"
    /\ UNCHANGED <<mcp_pc, mcp_args, mcp_tools>>
    /\ UNCHANGED notMcp

NextMcp ==
    \/ McpRunServer
    \/ \E name \in Elements(list_tools) \cup {"no_such_tool"} : McpHandleTool(name)

(***************************************************************************)
(* utils::format_to_extension, applied to a format string and then to its  *)
(* own result.                                                             *)
(***************************************************************************)
\* the pcm and wav formats keep their own names
format_to_extension_Verbatim(format) ==
    IF starts_with(format, "mp3") THEN "mp3"
    ELSE IF starts_with(format, "pcm") THEN "pcm"
    ELSE IF starts_with(format, "wav") THEN "wav"
    ELSE IF starts_with(format, "ulaw") \/ starts_with(format, "mulaw") THEN "ulaw"
    ELSE IF starts_with(format, "opus") THEN "opus"
    ELSE "mp3"

format_to_extension(format) ==
    IF starts_with(format, "mp3") THEN "mp3"
    ELSE IF starts_with(format, "pcm") \/ starts_with(format, "wav") THEN "wav"
    ELSE IF starts_with(format, "ulaw") \/ starts_with(format, "mulaw") THEN "ulaw"
    ELSE IF starts_with(format, "opus") THEN "opus"
    ELSE "mp3"

FormatHeads ==
    {"mp3", "pcm", "wav", "ulaw", "mulaw", "opus", "", "MP3", "mp", "aac", "xmp3", "u"}
FormatTails == {"", "_44100_128", "_8000", "law"}
Formats == {h \o t : h \in FormatHeads, t \in FormatTails}

FormatInit ==
    /\ fe_pc = "start"
    /\ fe_format \in Formats
    /\ fe_ext = ""
    /\ fe_again = ""

FormatIdle ==
    /\ fe_pc = "idle"
    /\ fe_format = ""
    /\ fe_ext = ""
    /\ fe_again = ""

FormatToExtension ==
    /\ fe_pc = "start"
    /\ fe_pc' = "mapped"
    /\ fe_ext' = format_to_extension(fe_format)
    /\ UNCHANGED <<fe_format, fe_again>>
    /\ UNCHANGED notFormat

ExtensionToExtension ==
    /\ fe_pc = "mapped"
    /\ fe_pc' = "remapped"
    /\ fe_again' = format_to_extension(fe_ext)
    /\ UNCHANGED <<fe_format, fe_ext>>
    /\ UNCHANGED notFormat

NextFormat == FormatToExtension \/ ExtensionToExtension

(***************************************************************************)
(* validation/voice_settings.rs.  An f32 is NaN, an infinity, the negative *)
(* zero, or a finite number counted in thousandths; comparisons are the    *)
(* IEEE ones: false with a NaN, and the two zeros are equal.               *)
(***************************************************************************)
NaN == [kind |-> "nan", milli |-> 0]
Infinity == [kind |-> "inf", milli |-> 1]
NegInfinity == [kind |-> "inf", milli |-> -1]
NegZero == [kind |-> "neg_zero", milli |-> 0]
Finite(milli) == [kind |-> "finite", milli |-> milli]

MIN_VALUE == Finite(0)
MAX_VALUE == Finite(1000)

\* the place of a number on the line; every finite value used lies within
Magnitude(x) ==
    IF x.kind = "inf" THEN x.milli * 1000000 ELSE x.milli

\* a <= b on f32
f32_le(a, b) ==
    a.kind # "nan" /\ b.kind # "nan" /\ Magnitude(a) <= Magnitude(b)

\* a < b on f32
f32_lt(a, b) ==
    a.kind # "nan" /\ b.kind # "nan" /\ Magnitude(a) < Magnitude(b)

\* the range leaves its upper end out
range_contains_HalfOpen(value) ==
    f32_le(MIN_VALUE, value) /\ f32_lt(value, MAX_VALUE)

\* (MIN_VALUE..=MAX_VALUE).contains(&value)
range_contains(value) ==
    f32_le(MIN_VALUE, value) /\ f32_le(value, MAX_VALUE)

validate_stability(value) ==
    IF ~range_contains(value) THEN Err("Stability must be between 0.0 and 1.0") ELSE Ok

validate_similarity_boost(value) ==
    IF ~range_contains(value) THEN Err("Similarity boost must be between 0.0 and 1.0") ELSE Ok

validate_style(value) ==
    IF ~range_contains(value) THEN Err("Style must be between 0.0 and 1.0") ELSE Ok

\* each `if let Some(v) = .. { validate_..(v)?; }` in turn, then Ok(())
validate_voice_settings(stability, similarity_boost, style) ==
    IF stability # None /\ validate_stability(stability[1]) # Ok
    THEN validate_stability(stability[1])
    ELSE IF similarity_boost # None /\ validate_similarity_boost(similarity_boost[1]) # Ok
    THEN validate_similarity_boost(similarity_boost[1])
    ELSE IF style # None /\ validate_style(style[1]) # Ok
    THEN validate_style(style[1])
    ELSE Ok

Floats ==
    {NaN, Infinity, NegInfinity, NegZero}
        \cup {Finite(n) : n \in {-100, -1, 0, 1, 500, 1000, 1001, 2000}}
OptionFloats == {None} \cup {Some(x) : x \in Floats}

SettingsInit ==
    /\ vs_pc = "start"
    /\ vs_args \in [stability : OptionFloats, similarity_boost : OptionFloats,
                    style : OptionFloats]
    /\ vs_result = None

SettingsIdle ==
    /\ vs_pc = "idle"
    /\ vs_args = [stability |-> None, similarity_boost |-> None, style |-> None]
    /\ vs_result = None

ValidateVoiceSettings ==
    /\ vs_pc = "start"
    /\ vs_pc' = "done"
    /\ vs_result' = Some(validate_voice_settings(vs_args.stability, vs_args.similarity_boost,
                                                 vs_args.style))
    /\ UNCHANGED vs_args
    /\ UNCHANGED notSettings

NextSettings == ValidateVoiceSettings

(***************************************************************************)
(* main.rs 35-46 and 110-115, cli/tts.rs 16-22: how the output format, the *)
(* voice and the model of a `tts` run are chosen.  clap fills a field from *)
(* the flag, or from its default_value when the flag was not passed; main  *)
(* then computes output_format and hands args to commands::tts::execute.   *)
(***************************************************************************)
\* the default_value attributes: main.rs line 45, cli/tts.rs lines 17 and 21
ClapDefaults ==
    [format |-> "mp3_44100_128", voice |-> "Brian", model |-> "eleven_multilingual_v2"]

\* the Config field that holds the default of a setting
DefaultField ==
    [format |-> "default_output_format", voice |-> "default_voice", model |-> "default_model"]

SettingNames == {"format", "voice", "model"}

\* what the user may pass, and what the config file may hold
FlagSamples ==
    [format : {None, Some("pcm_16000"), Some("mp3_44100_128")},
     voice  : {None, Some("Rachel")},
     model  : {None, Some("eleven_turbo_v2")}]
DefaultSamples ==
    [default_output_format : {None, Some("mp3_44100_192")},
     default_voice         : {None, Some("Adam")},
     default_model         : {None, Some("eleven_flash_v2")}]

NoSettings == [format |-> "", voice |-> "", model |-> ""]

\* Option::unwrap_or
unwrap_or(opt, default) == IF opt # None THEN opt[1] ELSE default

PrecedenceInit ==
    /\ pr_pc = "argv"
    /\ pr_flags \in FlagSamples
    /\ pr_config \in DefaultSamples
    /\ pr_cli = NoSettings
    /\ pr_used = NoSettings

PrecedenceIdle ==
    /\ pr_pc = "idle"
    /\ pr_flags = [format |-> None, voice |-> None, model |-> None]
    /\ pr_config = [default_output_format |-> None, default_voice |-> None, default_model |-> None]
    /\ pr_cli = NoSettings
    /\ pr_used = NoSettings

\* Cli::parse(): a field is the flag's value, or the default_value
CliParse ==
    /\ pr_pc = "argv"
    /\ pr_cli' = [s \in SettingNames |-> unwrap_or(pr_flags[s], ClapDefaults[s])]
    /\ pr_pc' = "parsed"
    /\ UNCHANGED <<pr_flags, pr_config, pr_used>>
    /\ UNCHANGED notPrecedence

\* main.rs 110-115 and 125-127, commands/tts.rs 32-35 and 85-88: output_format
\* is config.default_output_format.as_deref().unwrap_or(&cli.format); the
\* voice and the model are args.voice and args.model
TtsDispatch ==
    /\ pr_pc = "parsed"
    /\ pr_used' = [format |-> unwrap_or(pr_config.default_output_format, pr_cli.format),
                   voice  |-> pr_cli.voice,
                   model  |-> pr_cli.model]
    /\ pr_pc' = "dispatched"
    /\ UNCHANGED <<pr_flags, pr_config, pr_cli>>
    /\ UNCHANGED notPrecedence

NextPrecedence ==
    \/ CliParse
    \/ TtsDispatch

(***************************************************************************)
(* commands/stt.rs, commands/tts_timestamps.rs, commands/music.rs: the     *)
(* part of each command that writes its result.  --output (and, for        *)
(* tts-timestamps, --subtitles) names a path that may already hold a file. *)
(* std::fs::write creates or truncates the file as write_bytes_to_file     *)
(* does.                                                                   *)
(***************************************************************************)
WriterCommands == {"stt", "tts-timestamps", "music generate"}

\* a path before the command runs
WriterPaths == {Absent, Directory, RegularFile(<<7>>)}

\* the bytes a command writes: the transcript or the audio, and the subtitles
OutputBytes == <<1, 2>>
SubtitleBytes == <<3>>

IoOutcomes == {"none", "create_fails", "write_fails"}

WritersInit ==
    /\ ow_pc = "start"
    /\ ow_command \in WriterCommands
    /\ ow_args \in [yes : BOOLEAN, subtitles : BOOLEAN]
    /\ ow_prior \in [output : WriterPaths, subtitles : WriterPaths]
    /\ ow_files = ow_prior
    /\ ow_prompt = "not_invoked"
    /\ ow_result = None

WritersIdle ==
    /\ ow_pc = "idle"
    /\ ow_command = "none"
    /\ ow_args = [yes |-> FALSE, subtitles |-> FALSE]
    /\ ow_prior = [output |-> Absent, subtitles |-> Absent]
    /\ ow_files = [output |-> Absent, subtitles |-> Absent]
    /\ ow_prompt = "not_invoked"
    /\ ow_result = None

WritersReturn(r) ==
    /\ ow_pc' = "done"
    /\ ow_result' = Some(r)

\* stt.rs 98-105 with --output: fs::write(output_file, output)?; execute takes
\* no assume_yes (main.rs 128)
SttWrite(io, written) ==
    /\ ow_pc = "start"
    /\ ow_command = "stt"
    /\ \E w \in {write_bytes_to_file(ow_files.output, OutputBytes, io, written)} :
        /\ ow_files' = [ow_files EXCEPT !.output = w.file]
        /\ WritersReturn(w.result)
    /\ UNCHANGED <<ow_command, ow_args, ow_prior, ow_prompt>>
    /\ UNCHANGED notWriters

\* tts_timestamps.rs 87-126: confirm_overwrite and write_bytes_to_file for the
\* audio, then write_srt_subtitles / write_vtt_subtitles (fs::write, 191 and
\* 225) when --subtitles was passed
TimestampsWrite(answer, io, written, sub_io, sub_written) ==
    /\ ow_pc = "start"
    /\ ow_command = "tts-timestamps"
    /\ ow_prompt' = IF ow_files.output.kind # "absent" /\ ~ow_args.yes
                    THEN answer ELSE "not_invoked"
    /\ IF ~confirm_overwrite(ow_files.output.kind, ow_args.yes, answer)
       THEN WritersReturn(Ok) /\ UNCHANGED ow_files
       ELSE \E w \in {write_bytes_to_file(ow_files.output, OutputBytes, io, written)} :
            IF w.result # Ok
            THEN /\ ow_files' = [ow_files EXCEPT !.output = w.file]
                 /\ WritersReturn(w.result)
            ELSE IF ~ow_args.subtitles
            THEN /\ ow_files' = [ow_files EXCEPT !.output = w.file]
                 /\ WritersReturn(Ok)
            ELSE \E s \in {write_bytes_to_file(ow_files.subtitles, SubtitleBytes,
                                               sub_io, sub_written)} :
                 /\ ow_files' = [output |-> w.file, subtitles |-> s.file]
                 /\ WritersReturn(s.result)
    /\ UNCHANGED <<ow_command, ow_args, ow_prior>>
    /\ UNCHANGED notWriters

\* music.rs 129-141, generate_music: when the response carries audio_base64,
\* std::fs::write(path, &audio_bytes)?; otherwise nothing is written
MusicGenerateWrite(has_audio, io, written) ==
    /\ ow_pc = "start"
    /\ ow_command = "music generate"
    /\ IF ~has_audio
       THEN WritersReturn(Ok) /\ UNCHANGED ow_files
       ELSE \E w \in {write_bytes_to_file(ow_files.output, OutputBytes, io, written)} :
            /\ ow_files' = [ow_files EXCEPT !.output = w.file]
            /\ WritersReturn(w.result)
    /\ UNCHANGED <<ow_command, ow_args, ow_prior, ow_prompt>>
    /\ UNCHANGED notWriters

NextWriters ==
    \/ \E io \in IoOutcomes, n \in 0..Len(OutputBytes) : SttWrite(io, n)
    \/ \E answer \in {"yes", "no", "failed"}, io \in IoOutcomes, n \in 0..Len(OutputBytes),
          sio \in IoOutcomes, sn \in 0..Len(SubtitleBytes) :
            TimestampsWrite(answer, io, n, sio, sn)
    \/ \E a \in BOOLEAN, io \in IoOutcomes, n \in 0..Len(OutputBytes) :
            MusicGenerateWrite(a, io, n)

(***************************************************************************)
(* utils.rs: parse_output_format, and commands/tts.rs where the same       *)
(* output_format string chooses the format asked of the API (line 35) and  *)
(* the extension of the generated file name (lines 95-98).                 *)
(***************************************************************************)
\* utils::parse_output_format(format): the match on the whole string; the
\* function never fails
parse_output_format(format) ==
    CASE format = "mp3_22050_32" -> "Mp3_22050Hz32kbps"
      [] format = "mp3_44100_32" -> "Mp3_44100Hz32kbps"
      [] format = "mp3_44100_64" -> "Mp3_44100Hz64kbps"
      [] format = "mp3_44100_96" -> "Mp3_44100Hz96kbps"
      [] format = "mp3_44100_128" -> "Mp3_44100Hz128kbps"
      [] format = "mp3_44100_192" -> "Mp3_44100Hz192kbps"
      [] format = "pcm_8000" -> "Pcm8000Hz"
      [] format = "pcm_16000" -> "Pcm16000Hz"
      [] format = "pcm_22050" -> "Pcm22050Hz"
      [] format = "pcm_24000" -> "Pcm24000Hz"
      [] format = "pcm_44100" -> "Pcm44100Hz"
      [] format \in {"ulaw_8000", "mulaw_8000"} -> "MuLaw8000Hz"
      [] format = "opus_48000_32" -> "Opus48000Hz32kbps"
      [] format = "opus_48000_64" -> "Opus48000Hz64kbps"
      [] format = "opus_48000_96" -> "Opus48000Hz96kbps"
      [] format = "opus_48000_128" -> "Opus48000Hz128kbps"
      [] format = "opus_48000_192" -> "Opus48000Hz192kbps"
      [] format = "wav_8000" -> "Pcm8000Hz"
      [] format = "wav_16000" -> "Pcm16000Hz"
      [] format = "wav_22050" -> "Pcm22050Hz"
      [] format = "wav_24000" -> "Pcm24000Hz"
      [] format = "wav_44100" -> "Pcm44100Hz"
      [] OTHER -> "Mp3_44100Hz128kbps"

\* the strings parse_output_format has an arm for
NamedFormats ==
    {"mp3_22050_32", "mp3_44100_32", "mp3_44100_64", "mp3_44100_96", "mp3_44100_128",
     "mp3_44100_192", "pcm_8000", "pcm_16000", "pcm_22050", "pcm_24000", "pcm_44100",
     "ulaw_8000", "mulaw_8000", "opus_48000_32", "opus_48000_64", "opus_48000_96",
     "opus_48000_128", "opus_48000_192", "wav_8000", "wav_16000", "wav_22050",
     "wav_24000", "wav_44100"}

\* the strings a user may pass as --format or keep in default_output_format
FormatStrings == NamedFormats \cup Formats \cup {"pcm_48000", "opus_48000", "mp3_24000_48"}

CodecInit ==
    /\ oq_pc = "start"
    /\ oq_format \in FormatStrings
    /\ oq_requested = ""
    /\ oq_extension = ""

CodecIdle ==
    /\ oq_pc = "idle"
    /\ oq_format = ""
    /\ oq_requested = ""
    /\ oq_extension = ""

\* commands/tts.rs 35: let format = parse_output_format(output_format)?
\* (sent with the request at line 85)
TtsParseFormat ==
    /\ oq_pc = "start"
    /\ oq_requested' = parse_output_format(oq_format)
    /\ oq_pc' = "parsed"
    /\ UNCHANGED <<oq_format, oq_extension>>
    /\ UNCHANGED notCodec

\* commands/tts.rs 95-98, without --output:
\* generate_output_filename("speech", format_to_extension(output_format))
TtsOutputName ==
    /\ oq_pc = "parsed"
    /\ oq_extension' = format_to_extension(oq_format)
    /\ oq_pc' = "named"
    /\ UNCHANGED <<oq_format, oq_requested>>
    /\ UNCHANGED notCodec

NextCodec ==
    \/ TtsParseFormat
    \/ TtsOutputName

(***************************************************************************)
(* Specifications.                                                         *)
(***************************************************************************)
NextClassify ==
    \/ IsRetryable
    \/ PrintApiError

InitClassify ==
    /\ ClassifyInit
    /\ RetryIdle
    /\ BackoffIdle
    /\ MainIdle
    /\ TtsIdle
    /\ ConvIdle
    /\ PlayerIdle
    /\ ConfigIdle
    /\ SpeechIdle
    /\ ConfirmIdle
    /\ McpIdle
    /\ FormatIdle
    /\ SettingsIdle
    /\ PrecedenceIdle
    /\ WritersIdle
    /\ CodecIdle

SpecClassify == InitClassify /\ [][NextClassify]_vars

NextRetry ==
    \/ \E v \in OkValues : InvokeOk(v)
    \/ \E e \in OperationErrors : InvokeErr(e)
    \/ SleepDone
    \/ LoopExhausted

InitRetry ==
    /\ RetryInit
    /\ ClassifyIdle
    /\ BackoffIdle
    /\ MainIdle
    /\ TtsIdle
    /\ ConvIdle
    /\ PlayerIdle
    /\ ConfigIdle
    /\ SpeechIdle
    /\ ConfirmIdle
    /\ McpIdle
    /\ FormatIdle
    /\ SettingsIdle
    /\ PrecedenceIdle
    /\ WritersIdle
    /\ CodecIdle

SpecRetry == InitRetry /\ [][NextRetry]_vars

NextBackoff ==
    \/ CalculateBackoff

InitBackoff ==
    /\ BackoffInit
    /\ ClassifyIdle
    /\ RetryIdle
    /\ MainIdle
    /\ TtsIdle
    /\ ConvIdle
    /\ PlayerIdle
    /\ ConfigIdle
    /\ SpeechIdle
    /\ ConfirmIdle
    /\ McpIdle
    /\ FormatIdle
    /\ SettingsIdle
    /\ PrecedenceIdle
    /\ WritersIdle
    /\ CodecIdle

SpecBackoff == InitBackoff /\ [][NextBackoff]_vars


InitMain ==
    /\ MainInit
    /\ ClassifyIdle
    /\ RetryIdle
    /\ BackoffIdle
    /\ TtsIdle
    /\ ConvIdle
    /\ PlayerIdle
    /\ ConfigIdle
    /\ SpeechIdle
    /\ ConfirmIdle
    /\ McpIdle
    /\ FormatIdle
    /\ SettingsIdle
    /\ PrecedenceIdle
    /\ WritersIdle
    /\ CodecIdle

SpecMain == InitMain /\ [][NextMain]_vars

InitWs ==
    /\ WsInit
    /\ ClassifyIdle
    /\ RetryIdle
    /\ BackoffIdle
    /\ MainIdle
    /\ PlayerIdle
    /\ ConfigIdle
    /\ SpeechIdle
    /\ ConfirmIdle
    /\ McpIdle
    /\ FormatIdle
    /\ SettingsIdle
    /\ PrecedenceIdle
    /\ WritersIdle
    /\ CodecIdle

SpecWs == InitWs /\ [][NextWs]_vars

InitPlayer ==
    /\ PlayerInit
    /\ ClassifyIdle
    /\ RetryIdle
    /\ BackoffIdle
    /\ MainIdle
    /\ TtsIdle
    /\ ConvIdle
    /\ ConfigIdle
    /\ SpeechIdle
    /\ ConfirmIdle
    /\ McpIdle
    /\ FormatIdle
    /\ SettingsIdle
    /\ PrecedenceIdle
    /\ WritersIdle
    /\ CodecIdle

SpecPlayer == InitPlayer /\ [][NextPlayer]_vars

\* a step of the playback thread
ThreadStep ==
    \/ \E device \in BOOLEAN : ThreadStart(device)
    \/ \E decoded \in BOOLEAN : ThreadRecvOk(decoded)
    \/ \E decoded \in BOOLEAN : ThreadRecvTimeout(decoded)
    \/ ThreadTimeoutCheck
    \/ \E decoded \in BOOLEAN : ThreadRecvDisconnected(decoded)
    \/ ThreadEnds

\* the operating system runs the playback thread and the thread inside
\* join, and the audio device plays what the sink holds
SpecPlayerFair ==
    /\ SpecPlayer
    /\ WF_vars(ThreadStep)
    /\ WF_vars(SinkPlays)
    /\ WF_vars(FinishJoined)

InitConfig ==
    /\ ConfigInit
    /\ ClassifyIdle
    /\ RetryIdle
    /\ BackoffIdle
    /\ MainIdle
    /\ TtsIdle
    /\ ConvIdle
    /\ PlayerIdle
    /\ SpeechIdle
    /\ ConfirmIdle
    /\ McpIdle
    /\ FormatIdle
    /\ SettingsIdle
    /\ PrecedenceIdle
    /\ WritersIdle
    /\ CodecIdle

SpecConfig == InitConfig /\ [][NextConfig]_vars

InitRoundTrip ==
    /\ ConfigInitFrom(AllConfigs)
    /\ ClassifyIdle
    /\ RetryIdle
    /\ BackoffIdle
    /\ MainIdle
    /\ TtsIdle
    /\ ConvIdle
    /\ PlayerIdle
    /\ SpeechIdle
    /\ ConfirmIdle
    /\ McpIdle
    /\ FormatIdle
    /\ SettingsIdle
    /\ PrecedenceIdle
    /\ WritersIdle
    /\ CodecIdle

SpecRoundTrip == InitRoundTrip /\ [][NextRoundTrip]_vars

InitSpeech ==
    /\ SpeechInit
    /\ ClassifyIdle
    /\ RetryIdle
    /\ BackoffIdle
    /\ MainIdle
    /\ TtsIdle
    /\ ConvIdle
    /\ PlayerIdle
    /\ ConfigIdle
    /\ ConfirmIdle
    /\ McpIdle
    /\ FormatIdle
    /\ SettingsIdle
    /\ PrecedenceIdle
    /\ WritersIdle
    /\ CodecIdle

SpecSpeech == InitSpeech /\ [][NextSpeech]_vars

InitConfirm ==
    /\ ConfirmInit
    /\ ClassifyIdle
    /\ RetryIdle
    /\ BackoffIdle
    /\ MainIdle
    /\ TtsIdle
    /\ ConvIdle
    /\ PlayerIdle
    /\ ConfigIdle
    /\ SpeechIdle
    /\ McpIdle
    /\ FormatIdle
    /\ SettingsIdle
    /\ PrecedenceIdle
    /\ WritersIdle
    /\ CodecIdle

SpecConfirm == InitConfirm /\ [][NextConfirm]_vars

InitMcp ==
    /\ McpInit
    /\ ClassifyIdle
    /\ RetryIdle
    /\ BackoffIdle
    /\ MainIdle
    /\ TtsIdle
    /\ ConvIdle
    /\ PlayerIdle
    /\ ConfigIdle
    /\ SpeechIdle
    /\ ConfirmIdle
    /\ FormatIdle
    /\ SettingsIdle
    /\ PrecedenceIdle
    /\ WritersIdle
    /\ CodecIdle

SpecMcp == InitMcp /\ [][NextMcp]_vars

InitFormat ==
    /\ FormatInit
    /\ ClassifyIdle
    /\ RetryIdle
    /\ BackoffIdle
    /\ MainIdle
    /\ TtsIdle
    /\ ConvIdle
    /\ PlayerIdle
    /\ ConfigIdle
    /\ SpeechIdle
    /\ ConfirmIdle
    /\ McpIdle
    /\ SettingsIdle
    /\ PrecedenceIdle
    /\ WritersIdle
    /\ CodecIdle

SpecFormat == InitFormat /\ [][NextFormat]_vars

InitSettings ==
    /\ SettingsInit
    /\ ClassifyIdle
    /\ RetryIdle
    /\ BackoffIdle
    /\ MainIdle
    /\ TtsIdle
    /\ ConvIdle
    /\ PlayerIdle
    /\ ConfigIdle
    /\ SpeechIdle
    /\ ConfirmIdle
    /\ McpIdle
    /\ FormatIdle
    /\ PrecedenceIdle
    /\ WritersIdle
    /\ CodecIdle

SpecSettings == InitSettings /\ [][NextSettings]_vars

InitConv ==
    /\ ConvInit
    /\ ClassifyIdle
    /\ RetryIdle
    /\ BackoffIdle
    /\ MainIdle
    /\ TtsIdle
    /\ PlayerIdle
    /\ ConfigIdle
    /\ SpeechIdle
    /\ ConfirmIdle
    /\ McpIdle
    /\ FormatIdle
    /\ SettingsIdle
    /\ PrecedenceIdle
    /\ WritersIdle
    /\ CodecIdle

\* the steps the runtime takes by itself: the sender task, the input loop's
\* send and join, and read_line at end-of-file (it returns at once); a line
\* typed by the user and the server's messages are not among them
ConvTaskStep ==
    \/ \E sent \in BOOLEAN : ConvSenderSend(sent)
    \/ ConvInputSend
    \/ ConvJoin
    \/ conv_stdin = "eof" /\ ConvReadLine("")

SpecConvFair == InitConv /\ [][NextConv]_vars /\ WF_vars(ConvTaskStep)

InitPrecedence ==
    /\ PrecedenceInit
    /\ ClassifyIdle
    /\ RetryIdle
    /\ BackoffIdle
    /\ MainIdle
    /\ TtsIdle
    /\ ConvIdle
    /\ PlayerIdle
    /\ ConfigIdle
    /\ SpeechIdle
    /\ ConfirmIdle
    /\ McpIdle
    /\ FormatIdle
    /\ SettingsIdle
    /\ WritersIdle
    /\ CodecIdle

SpecPrecedence == InitPrecedence /\ [][NextPrecedence]_vars

InitWriters ==
    /\ WritersInit
    /\ ClassifyIdle
    /\ RetryIdle
    /\ BackoffIdle
    /\ MainIdle
    /\ TtsIdle
    /\ ConvIdle
    /\ PlayerIdle
    /\ ConfigIdle
    /\ SpeechIdle
    /\ ConfirmIdle
    /\ McpIdle
    /\ FormatIdle
    /\ SettingsIdle
    /\ PrecedenceIdle
    /\ CodecIdle

SpecWriters == InitWriters /\ [][NextWriters]_vars

InitCodec ==
    /\ CodecInit
    /\ ClassifyIdle
    /\ RetryIdle
    /\ BackoffIdle
    /\ MainIdle
    /\ TtsIdle
    /\ ConvIdle
    /\ PlayerIdle
    /\ ConfigIdle
    /\ SpeechIdle
    /\ ConfirmIdle
    /\ McpIdle
    /\ FormatIdle
    /\ SettingsIdle
    /\ PrecedenceIdle
    /\ WritersIdle

SpecCodec == InitCodec /\ [][NextCodec]_vars

(***************************************************************************)
(* Claims.                                                                 *)
(***************************************************************************)
Invocations == { i \in 1..Len(retry_trace) : retry_trace[i].ev = "invoke" }
IsOk(out) == "ok" \in DOMAIN out
IsErr(out) == "err" \in DOMAIN out

\* C1: with_retry invokes the operation at most max_retries times and stops
\* at the first success: for max_retries >= 1, an invocation that returned
\* Ok is the last thing with_retry did and its value is the value returned;
\* the max_retries-th invocation is followed by no sleep (and no invocation);
\* a sleep is only ever started after a failed attempt below max_retries.
C1_RetryStopsAtFirstSuccess ==
    max_retries >= 1 =>
        /\ Cardinality(Invocations) <= max_retries
        /\ \A i \in Invocations :
              IsOk(retry_trace[i].out) =>
                  /\ i = Len(retry_trace)
                  /\ retry_pc = "done"
                  /\ retry_result = retry_trace[i].out
        /\ \A i \in Invocations :
              retry_trace[i].attempt = max_retries =>
                  /\ i = Len(retry_trace)
                  /\ retry_pc = "done"
        /\ retry_pc = "sleep" =>
              /\ attempt < max_retries
              /\ IsErr(retry_trace[Len(retry_trace)].out)

\* C1's case: a success on a later attempt, after a failure and a sleep
C1_Witness ==
    /\ retry_pc = "done"
    /\ IsOk(retry_result)
    /\ Len(retry_trace) >= 3
    /\ retry_trace[Len(retry_trace) - 1].ev = "sleep"

NonRetryableKinds == {"MissingApiKey", "Unauthorized", "Forbidden", "NotFound"}

\* C2: a non-retryable error is never retried: an invocation that failed with
\* an error of kind MissingApiKey, Unauthorized, Forbidden or NotFound is the
\* last thing with_retry did (no further invocation, no sleep) and that error
\* is what with_retry returned, whatever max_retries and the attempt number.
C2_NonRetryableNeverRetried ==
    \A i \in Invocations :
        (/\ IsErr(retry_trace[i].out)
         /\ parse_api_error(retry_trace[i].out.err) \in NonRetryableKinds)
        => /\ i = Len(retry_trace)
           /\ retry_pc = "done"
           /\ retry_result = retry_trace[i].out

\* C2's case: a not-found error on the first of three permitted attempts,
\* and one on a later attempt after a retried failure
C2_Witness ==
    /\ max_retries = 3
    /\ retry_pc = "done"
    /\ IsErr(retry_result)
    /\ parse_api_error(retry_result.err) = "NotFound"
    /\ Len(retry_trace) = 3
    /\ retry_trace[3].attempt = 2

\* C3 as stated: whatever else the text contains, a text containing "429" is
\* RateLimited / YesWithBackoff and a text containing "404" is NotFound / No.
C3_ClassifiedBySubstring ==
    api_error # "unset" =>
        /\ Contains(err_text, "429") =>
              (api_error = "RateLimited" /\ err_retryable = "YesWithBackoff")
        /\ Contains(err_text, "404") =>
              (api_error = "NotFound" /\ err_retryable = "No")

\* the patterns of the kinds tested before NotFound, on the lower-cased text
MatchesKindBeforeNotFound(low) ==
    \/ Contains(low, "api key") /\ (Contains(low, "required") \/ Contains(low, "none"))
    \/ Contains(low, "401") \/ Contains(low, "unauthorized") \/ Contains(low, "invalid api key")
    \/ Contains(low, "403") \/ Contains(low, "forbidden") \/ Contains(low, "permission denied")

\* C3 amended: the kinds are tested in a fixed order, so a text containing
\* "404" is NotFound / No unless it matches a pattern of MissingApiKey,
\* Unauthorized or Forbidden, and a text containing "429" is RateLimited /
\* YesWithBackoff unless it matches one of those or contains "404" or
\* "not found".
C3_ClassifiedBySubstringInOrder ==
    api_error # "unset" =>
        LET low == to_lowercase(err_text)
        IN  /\ (/\ Contains(err_text, "404")
                /\ ~MatchesKindBeforeNotFound(low))
               => (api_error = "NotFound" /\ err_retryable = "No")
            /\ (/\ Contains(err_text, "429")
                /\ ~MatchesKindBeforeNotFound(low)
                /\ ~Contains(low, "404")
                /\ ~Contains(low, "not found"))
               => (api_error = "RateLimited" /\ err_retryable = "YesWithBackoff")

\* C3's case: a text with both status codes has been classified
C3_Witness ==
    /\ api_error = "NotFound"
    /\ err_retryable = "No"
    /\ Contains(err_text, "404")
    /\ Contains(err_text, "429")

\* min(1000 * 2^(attempt-1), 30000) over the integers (1000 * 2^5 is already
\* above the cap)
CappedExponential(att) ==
    IF att - 1 >= 5 THEN MAX_BACKOFF_MS
    ELSE IF INITIAL_BACKOFF_MS * 2^(att - 1) < MAX_BACKOFF_MS
         THEN INITIAL_BACKOFF_MS * 2^(att - 1) ELSE MAX_BACKOFF_MS

\* C4: for every attempt >= 1, calculate_backoff with Retryable::Yes returns,
\* and the delay it computes before jitter is min(1000 * 2^(attempt-1), 30000).
C4_BackoffCapped ==
    (cb_pc \notin {"call", "idle"} /\ cb_retryable = "Yes") =>
        /\ cb_pc = "returned"
        /\ cb_delay = CappedExponential(cb_attempt)

\* C5: once a command handler has returned an error and the process has
\* exited, the exit code is non-zero and what was written to stderr is the
\* block print_api_error prints for that error's kind (for a 401 error, the
\* "Invalid API key" block).
C5_HandlerErrorPrintedByKind ==
    (handler_result # None /\ handler_result[1] # Ok /\ exit_code # -1) =>
        /\ exit_code # 0
        /\ stderr = ApiErrorBlock(handler_result[1].err)

\* C6: when ws_receiver.next() has yielded an error, the command (realtime
\* TTS, agent conversation) does not return Ok: its result is an error.
C6_WsReceiveErrorPropagates ==
    /\ (tts_ws_error /\ tts_result # None) => tts_result[1] # Ok
    /\ (conv_ws_error /\ conv_result # None) => conv_result[1] # Ok

\* the places of the byte runs offered to the decoder: <<attempt, run>>
OfferedAt ==
    UNION { { <<i, j>> : j \in 1..Len(pl_offered[i].data) } : i \in 1..Len(pl_offered) }

OfferedRun(p) == pl_offered[p[1]].data[p[2]]

\* place p comes before place q in what the decoder has been given
OfferedBefore(p, q) == p[1] < q[1] \/ (p[1] = q[1] /\ p[2] < q[2])

\* byte x of chunk a has been offered at a place before p
ByteOfferedBefore(a, x, p) ==
    \E r \in OfferedAt :
        /\ OfferedBefore(r, p)
        /\ OfferedRun(r).chunk = a
        /\ OfferedRun(r).lo <= x
        /\ x < OfferedRun(r).hi

\* every byte of the run at q has been offered at a place before p: the
\* first byte that has not is the run's first or follows the end of a run
RunOfferedBefore(q, p) ==
    LET a == OfferedRun(q).chunk
        ends == { OfferedRun(r).hi : r \in { r \in OfferedAt :
                      OfferedBefore(r, p) /\ OfferedRun(r).chunk = a } }
        firsts == {OfferedRun(q).lo} \cup
                  { x \in ends : OfferedRun(q).lo <= x /\ x < OfferedRun(q).hi }
    IN  \A x \in firsts : ByteOfferedBefore(a, x, p)

\* C7: for chunks A sent before B, wherever a byte of B is offered to the
\* decoder, every byte of A that is offered anywhere has been offered before
\* that place; and the buffer holds its chunks in arrival order.
C7_ForwardedInArrivalOrder ==
    /\ \A p \in OfferedAt, q \in OfferedAt :
           OfferedRun(q).chunk < OfferedRun(p).chunk => RunOfferedBefore(q, p)
    /\ \A i \in 1..Len(pl_buffer), j \in 1..Len(pl_buffer) :
           i < j => pl_buffer[i].chunk < pl_buffer[j].chunk

\* C7's case: bytes of the first chunk kept for continuity are offered again
\* in an attempt after one that offered the second chunk
C7_Witness ==
    \E p \in OfferedAt, q \in OfferedAt :
        /\ p[1] < q[1]
        /\ OfferedRun(p).chunk = 2
        /\ OfferedRun(q).chunk = 1

\* C8: the playback thread leaves its receive loop only when the sender has
\* been dropped.
C8_LoopEndsOnlyAfterSenderDropped ==
    [][(InLoop(pl_thread) /\ ~InLoop(pl_thread')) => pl_sender = "dropped"]_vars

\* what the buffer holds has been offered to the decoder
BufferOffered ==
    \/ pl_buffer = <<>>
    \/ \E i \in 1..Len(pl_offered) : pl_offered[i].data = pl_buffer

\* C9: once finish has dropped the sender it returns in the end, and only
\* after the thread has ended; a thread that has left its loop has offered
\* what its buffer holds, and it ends only with the sink drained.
C9_FinishFlushesAndJoins ==
    /\ [](pl_finish = "joining" => <>(pl_finish \in {"returned_ok", "returned_err"}))
    /\ [](pl_finish \in {"returned_ok", "returned_err"} => RxDropped(pl_thread))
    /\ [](pl_thread \in {"drain", "terminated"} => BufferOffered)
    /\ [](pl_thread = "terminated" => pl_sink = 0)

\* C9's case: finish has returned after the thread, told by the disconnected
\* channel, offered the rest of its buffer
C9_Witness ==
    /\ pl_finish = "returned_ok"
    /\ pl_thread = "terminated"
    /\ \E i \in 1..Len(pl_offered) : pl_offered[i].branch = "Disconnected"

\* the value the config file holds for a key (None when there is no file or
\* it does not parse)
Persisted(file, k) ==
    IF file.state = "written" THEN FromToml(file.doc)[k] ELSE None

\* C10: in every step, the persisted value of a key changes only if the
\* command run is `config set` or `config unset` of that same key.
C10_OnlyExplicitSetChangesKey ==
    [][\A k \in ConfigKeys :
           Persisted(config_file', k) # Persisted(config_file, k) =>
               /\ m_command'.cmd \in {"config set", "config unset"}
               /\ m_command'.key = k]_vars

C13_Original ==
    (sp_pc = "done" /\ sp_audio # None) =>
        (sp_path = RegularFile(sp_audio[1]) /\ sp_result = Some(Ok))

\* C13, amended: after a successful API call, when the overwrite is permitted
\* (no prompt was needed, or it was answered yes) and the file was created
\* and written, the output path holds exactly the audio bytes and the command
\* returns success unless playback failed; when the prompt was declined or
\* could not be shown, the command returns success and the path is as before.
C13_ExactBytesWhenWritten ==
    (sp_pc = "done" /\ sp_audio # None) =>
        /\ (sp_prompt \in {"no", "fails"}) =>
              (sp_result = Some(Ok) /\ sp_path = sp_prior /\ sp_io = "none")
        /\ (sp_prompt \in {"not_invoked", "yes"} /\ sp_io = "ok") =>
              /\ sp_path = RegularFile(sp_audio[1])
              /\ (sp_played # "fails" => sp_result = Some(Ok))

C13_Witness ==
    /\ sp_pc = "done"
    /\ sp_prior = RegularFile(<<7>>)
    /\ ~sp_args.yes
    /\ sp_prompt = "yes"
    /\ sp_audio = Some(<<1, 2>>)
    /\ sp_path = RegularFile(<<1, 2>>)
    /\ sp_result = Some(Ok)

\* C14: with the global --yes flag no command invokes a confirmation prompt;
\* every destructive or overwriting action proceeds without one.
C14_NoPromptWithYes ==
    cf_yes => cf_prompts = 0

\* the tools a restriction option excludes: those named in --disable-tools
\* and, with --disable-admin, the delete / create / update tools
IsAdminTool(t) ==
    starts_with(t, "delete_") \/ starts_with(t, "create_") \/ starts_with(t, "update_")

ExcludedTools ==
    {t \in Elements(list_tools) :
        \/ t \in Elements(ParseTools(mcp_args.disable_tools))
        \/ mcp_args.disable_admin /\ IsAdminTool(t)}

\* C15: for every combination of --enable-tools, --disable-tools and
\* --disable-admin, an excluded tool is absent from the server's enabled tool
\* list and a call to it is answered as not available.
C15_ExcludedToolNeverExposed ==
    mcp_pc = "serving" =>
        /\ ExcludedTools \cap Elements(mcp_tools) = {}
        /\ mcp_call \in ExcludedTools => mcp_reply = "not_available"

HasPrefix(p) == Len(fe_format) >= Len(p) /\ \A i \in 1..Len(p) : SubSeq(fe_format, i, i) = SubSeq(p, i, i)

\* C16: format_to_extension maps a format by its prefix: mp3 to "mp3", pcm or
\* wav to "wav", ulaw or mulaw to "ulaw", opus to "opus", anything else to
\* "mp3"; the result is one of these four extensions, and the function maps
\* its own result to the same extension.
C16_ExtensionByPrefix ==
    /\ fe_pc \in {"mapped", "remapped"} =>
        /\ HasPrefix("mp3") => fe_ext = "mp3"
        /\ (HasPrefix("pcm") \/ HasPrefix("wav")) => fe_ext = "wav"
        /\ (HasPrefix("ulaw") \/ HasPrefix("mulaw")) => fe_ext = "ulaw"
        /\ HasPrefix("opus") => fe_ext = "opus"
        /\ ~(\E p \in {"mp3", "pcm", "wav", "ulaw", "mulaw", "opus"} : HasPrefix(p)) =>
              fe_ext = "mp3"
        /\ fe_ext \in {"mp3", "wav", "ulaw", "opus"}
    /\ fe_pc = "remapped" => fe_again = fe_ext

C16_Witness ==
    /\ fe_pc = "remapped"
    /\ fe_format = "mulaw_8000"
    /\ fe_ext = "ulaw"
    /\ fe_again = "ulaw"

\* a provided value lies in the closed interval [0.0, 1.0]
InUnitInterval(option) ==
    option # None =>
        /\ option[1].kind \in {"finite", "neg_zero"}
        /\ option[1].milli >= 0
        /\ option[1].milli <= 1000

\* C17: validate_voice_settings returns Ok exactly when every provided value
\* among stability, similarity_boost and style lies in [0.0, 1.0]: absent
\* values are skipped, 0.0 and 1.0 are accepted, one value out of range fails
\* the call.
C17_OkIffAllInRange ==
    vs_pc = "done" =>
        (vs_result = Some(Ok) <=>
            /\ InUnitInterval(vs_args.stability)
            /\ InUnitInterval(vs_args.similarity_boost)
            /\ InUnitInterval(vs_args.style))

C17_Witness ==
    /\ vs_pc = "done"
    /\ vs_args = [stability |-> Some(Finite(0)), similarity_boost |-> None,
                  style |-> Some(Finite(1000))]
    /\ vs_result = Some(Ok)

\* C18: at every attempt number, the delay calculate_backoff computes before
\* jitter for Retryable::YesWithBackoff is at least the one it computes for
\* Retryable::Yes at the same attempt.
C18_RateLimitWaitsLonger ==
    (cb_pc = "returned" /\ cb_retryable = "YesWithBackoff") =>
        cb_delay >= calculate_backoff(cb_attempt, "Yes", overflow_checks, nanos).delay

\* chunk i is part of what some decode attempt was given
ChunkOffered(i) ==
    \E p \in OfferedAt : OfferedRun(p).chunk = i

\* C19: every chunk for which send_chunk returned Ok has been offered to the
\* decoder at least once by the time the playback thread has ended, and no
\* chunk taken from the channel is discarded without being buffered.
C19_NoAcceptedChunkLost ==
    /\ pl_discarded = {}
    /\ pl_thread = "terminated" =>
           \A i \in 1..Len(pl_chunks) : pl_chunks[i].result = "Ok" => ChunkOffered(i)

\* C20: a byte that was part of one decode attempt is not part of a later
\* one.
C20_ByteOfferedAtMostOnce ==
    \A p \in OfferedAt, q \in OfferedAt :
        (p[1] < q[1] /\ OfferedRun(p).chunk = OfferedRun(q).chunk) =>
            \/ OfferedRun(p).hi <= OfferedRun(q).lo
            \/ OfferedRun(q).hi <= OfferedRun(p).lo

\* the decoder has rejected what some decode attempt gave it
DecodeFailed ==
    \E i \in 1..Len(pl_offered) : ~pl_offered[i].decoded

\* C21: after the decoder has rejected the buffered bytes the playback thread
\* keeps running while the sender is there (it is in its receive loop, so it
\* processes later chunks), and the producer is not told: every send_chunk
\* has returned Ok and finish does not return an error.
C21_DecodeFailureContained ==
    DecodeFailed =>
        /\ pl_sender = "open" => InLoop(pl_thread)
        /\ \A i \in 1..Len(pl_chunks) : pl_chunks[i].result = "Ok"
        /\ pl_finish # "returned_err"

\* no further progress is possible: the receiver task has ended (the server
\* closed the WebSocket or the connection failed) or standard input is at
\* end-of-file
ConvNoProgress ==
    /\ conv_pc \in {"prompt", "send", "join"}
    /\ conv_receiver = "ended" \/ conv_stdin = "eof"

\* C22: once the server has closed the WebSocket, the connection has failed
\* or standard input has reached end-of-file, `converse chat` returns in the
\* end without any further line from the user.
C22_ChatTerminates ==
    ConvNoProgress ~> (conv_result # None)

\* C23: an error that matches none of the classifier's patterns (kind Other,
\* a validation failure or a 400 response) is not retried: the invocation
\* that failed with it is the last thing with_retry did, and that error is
\* what with_retry returned.
C23_OtherErrorNotRetried ==
    \A i \in Invocations :
        (/\ IsErr(retry_trace[i].out)
         /\ parse_api_error(retry_trace[i].out.err) = "Other")
        => /\ i = Len(retry_trace)
           /\ retry_pc = "done"
           /\ retry_result = retry_trace[i].out

\* C24: whenever with_retry has returned Err, the error is the one the most
\* recent invocation of the operation produced, for every max_retries >= 0.
C24_ReturnsLastInvocationError ==
    (retry_pc = "done" /\ IsErr(retry_result)) =>
        \E i \in Invocations :
            /\ \A j \in Invocations : j <= i
            /\ retry_trace[i].out = retry_result

\* C25: for every attempt and every value of the pseudo-random source, the
\* duration calculate_backoff returns lies between the capped pre-jitter
\* delay and 1.25 times it.
C25_JitterWithinQuarter ==
    (cb_pc = "returned" /\ cb_retryable # "No") =>
        /\ LimbsFitNat(cb_duration)
        /\ cb_delay <= LimbsToNat(cb_duration)
        /\ 4 * LimbsToNat(cb_duration) <= 5 * cb_delay

ApiErrorKinds ==
    {"MissingApiKey", "Unauthorized", "Forbidden", "NotFound", "RateLimited", "ServerError",
     "NetworkError", "Timeout", "Other"}

\* the kinds parse_api_error returns over the model's texts
KindsReached == {parse_api_error(t) : t \in Texts}

\* the text reports a timeout
ReportsTimeout(text) ==
    Contains(to_lowercase(text), "timeout") \/ Contains(to_lowercase(text), "timed out")

\* C26: every kind of the taxonomy is the classification of some error text,
\* and a text that reports a timeout (and matches no earlier kind's pattern)
\* is classified as Timeout.
C26_EveryKindReachable ==
    api_error \notin {"unset", "idle"} =>
        /\ (ReportsTimeout(err_text) /\ api_error \in {"NetworkError", "Timeout", "Other"}) =>
               api_error = "Timeout"
        /\ ApiErrorKinds \subseteq KindsReached

\* the commands main.rs serves before it loads the config and tests the key
KeylessCommands == {"help", "completions", "mcp"}

\* the key of the run that is starting: --api-key / ELEVENLABS_API_KEY if
\* given, otherwise the config file's value
ResolvedKey ==
    IF m_command'.api_key # None
    THEN m_command'.api_key
    ELSE Config_load(config_file).config.api_key

\* C27: API-key gate.  A run of any command other than a bare invocation,
\* `completions` and `mcp` (config show/set/unset and interactive included)
\* that resolves no non-empty API key exits with code 1 and its handler is
\* never called; so a handler of such a command only runs with a non-empty key.
C27_ApiKeyGate ==
    [][ (m_pc = "shell" /\ m_command'.cmd \notin KeylessCommands
            /\ (ResolvedKey = None \/ ResolvedKey[1] = ""))
        => /\ handler_result' = None
           /\ exit_code' = 1
           /\ m_pc' = "shell"
           /\ config_file' = config_file ]_vars

\* `config set` was run with no key at all over a readable config: it ended
\* with code 1 and the missing-key block, and the file is as it was
C27_Witness ==
    /\ m_command.cmd = "config set"
    /\ m_command.api_key = None
    /\ Config_load(config_file).result = Ok
    /\ Config_load(config_file).config.api_key = None
    /\ exit_code = 1
    /\ stderr = MissingKeyBlock
    /\ handler_result = None

\* the value the stated precedence gives a setting: the flag if passed,
\* otherwise the config default, otherwise the built-in default
Precedence(s) ==
    unwrap_or(pr_flags[s], unwrap_or(pr_config[DefaultField[s]], ClapDefaults[s]))

\* C28: Setting precedence.  For the output format, the voice and the model
\* of a run, the value used is the one passed on the command line if one was
\* passed, otherwise the config file's default if it has one, otherwise the
\* built-in default.
C28_SettingPrecedence ==
    pr_pc = "dispatched" => \A s \in SettingNames : pr_used[s] = Precedence(s)

\* C29: No command overwrites a file that already exists at a path it
\* writes (stt --output, the tts-timestamps audio and subtitle files, the
\* music generate output) unless --yes was given or the user answered yes
\* to the overwrite prompt; when the prompt is declined or fails, the files
\* are as they were.
C29_NoSilentOverwrite ==
    /\ \A p \in {"output", "subtitles"} :
        (ow_prior[p].kind = "file" /\ ow_files[p] # ow_prior[p])
            => (ow_args.yes \/ ow_prompt = "yes")
    /\ ow_prompt \in {"no", "failed"} => ow_files = ow_prior

\* the extension that names the codec family of an OutputFormat variant
FamilyExtension(variant) ==
    IF starts_with(variant, "Mp3") THEN "mp3"
    ELSE IF starts_with(variant, "Pcm") THEN "wav"
    ELSE IF starts_with(variant, "MuLaw") THEN "ulaw"
    ELSE "opus"

\* C30: for every output-format string, the extension format_to_extension
\* chooses for the default file name names the codec family of the format
\* parse_output_format requests from the API: mp3 with an MP3 format, wav
\* with a PCM format, ulaw with the mu-law format, opus with an Opus format.
C30_ExtensionMatchesCodec ==
    oq_pc = "named" => oq_extension = FamilyExtension(oq_requested)

=============================================================================
